---- MODULE Spec2Model ----
(***************************************************************************)
(* Incremental reconciliation engine of obsidiosaurus.                     *)
(*                                                                         *)
(* The repository holds two reconcilers over the same two trees (the       *)
(* vault of source documents and the site of produced outputs):            *)
(*   - MarkdownFileHandler.startConversion (src/src/MarkdownFileHandler.ts)*)
(*     a synchronous two-pass reconciler, specification SpecHandler;       *)
(*   - obsidiosaurusProcess (src/unnamed/part_001), an asynchronous        *)
(*     reconciler with an asset registry, specification Spec.              *)
(* Both are modelled here over one shared filesystem state.                *)
(***************************************************************************)
EXTENDS Integers, Sequences, FiniteSets, TLC

\* ------------------------------------------------------------------ bounds
\* Largest modification time the clock reaches.
MaxTime == 2
\* Longest ledger a run of the handler is started with.
MaxEntries == 4

\* ------------------------------------------------------------- the two trees
\* Source documents of the vault, in directory-listing order.
DocOrder == <<"a", "b">>
Docs == {DocOrder[k] : k \in 1..Len(DocOrder)}

\* The target path computed for a source document (MarkdownSourceFile.targetPath).
TargetOf(d) == IF d = "a" THEN "ta" ELSE "tb"

\* Target paths, in directory-listing order.
PathOrder == <<"ta", "tb">>
Paths == {PathOrder[k] : k \in 1..Len(PathOrder)}

\* Marks a file that does not exist.
Absent == 0 - 1

VARIABLES
    vault,                \* source tree: document -> modification time or Absent
    site,                 \* target tree: path -> modification time or Absent
    now,                  \* the wall clock
    \* ---- MarkdownFileHandler
    dataFile,             \* the ledger file: [exists, data]
    hpc,                  \* position inside startConversion
    sourceFiles,          \* parseMdFiles(sourceFolder)
    targetFiles,          \* parseMdFiles(targetFolder)
    mdConversionEntries,  \* the in-memory ledger
    hi,                   \* forEach index of the running pass
    hres,                 \* how the last run ended: none | done | aborted
    \* ---- obsidiosaurusProcess
    layout,               \* how the vault is laid out: plain | flat
    allFilesInfoJson,     \* the ledger file allFilesInfo.json: [exists, data]
    assetInfoJson,        \* the registry file assetInfo.json: [exists, data]
    ppc,                  \* position inside obsidiosaurusProcess
    allSourceFilesInfo,   \* the source inventory of the run
    targetJson,           \* the in-memory ledger
    filesToDelete,        \* the delete-set, sorted by deleteFiles
    pi,                   \* loop index of deleteFiles
    dirPath,              \* deleteParentDirectories: the loop's dirPath
    config,               \* the plugin settings: [mainLanguage]
    mainFolders,          \* the files getMainfolders and processSingleFolder found
    assetJson,            \* the in-memory asset registry
    tasks,                \* copyMarkdownFilesToTarget: the file and position of each task
    results,              \* copyMarkdownFilesToTarget: results
    pres,                 \* how the last run ended: none | done | aborted
    startFiles,           \* the two persisted files when the current run started
    \* ---- observation of runs
    changes,              \* what the user changed since the last run ended
    runChanges,           \* changes, as they were when the current run started
    runAfterDone,         \* the run before the current one completed
    prevEnd,              \* in-memory ledger the last completed run ended with
    startSite,            \* target tree when the current run started
    convCount,            \* conversions of each document in the current run
    delCount,             \* deletions of each target path in the current run
    lastStep,             \* the element the last pass step handled
    \* ---- processMarkdown
    mdpc,                 \* position inside processMarkdown: lines | returned | rejected
    sourceContent,        \* the text processMarkdown was called with, as its lines
    sourceLines,          \* the lines readline has still to deliver
    transformedContent,   \* the text built so far
    inAdmonition,         \* the loop's inAdmonition
    inQuote,              \* the loop's inQuote
    admonition,           \* the loop's admonition: [type, title, whitespaces]
    lastLine              \* the last line handled, as each rewrite left it

envVars == <<vault, site, now>>
scanVars == <<dirPath, config, mainFolders>>
handlerVars == <<dataFile, hpc, sourceFiles, targetFiles, mdConversionEntries, hi, hres>>
processVars == <<layout, dirPath, config, mainFolders, allFilesInfoJson, assetInfoJson, ppc, allSourceFilesInfo, targetJson,
                 filesToDelete, pi, assetJson, tasks, results, pres, startFiles>>
obsVars == <<changes, runChanges, runAfterDone, prevEnd, startSite, convCount, delCount, lastStep>>
markdownVars == <<mdpc, sourceContent, sourceLines, transformedContent, inAdmonition, inQuote, admonition,
                  lastLine>>
vars == <<envVars, handlerVars, processVars, obsVars, markdownVars>>

\* ------------------------------------------------------------------ helpers
\* Array.prototype.findIndex, 1-based; 0 stands for -1.
FindIndex(seq, Test(_)) ==
    IF \E k \in 1..Len(seq) : Test(seq[k])
    THEN CHOOSE k \in 1..Len(seq) : Test(seq[k]) /\ \A j \in 1..(k-1) : ~Test(seq[j])
    ELSE 0

\* Array.prototype.splice(index, 1), 1-based.
Splice(seq, k) == [j \in 1..(Len(seq)-1) |-> IF j < k THEN seq[j] ELSE seq[j+1]]

\* The files of a tree as the records parseMdFiles builds, in listing order.
ParseSource(tree) ==
    LET present == SelectSeq(DocOrder, LAMBDA d : tree[d] # Absent)
    IN [k \in 1..Len(present) |->
           [absolutepath |-> present[k], dateModified |-> tree[present[k]],
            targetPath |-> TargetOf(present[k])]]

ParseTarget(tree) ==
    LET present == SelectSeq(PathOrder, LAMBDA p : tree[p] # Absent)
    IN [k \in 1..Len(present) |->
           [absolutepath |-> present[k], dateModified |-> tree[present[k]]]]

NoStep == [pass |-> "none"]

\* The user's changes between two runs: none, the single one, or several.
NoChange == <<>>
Several == <<<<"several", "">>>>
Noted(old, what, x) == IF old = NoChange THEN <<<<what, x>>>> ELSE Several

NoCount(S) == [x \in S |-> 0]

\* ------------------------------------------------------------------ Init
\* parseAdmonitionData without a match (line 496); no line handled yet.
NoAdmonition == [type |-> <<>>, title |-> <<>>, whitespaces |-> 0]
NoLine == [line |-> <<>>, pass |-> "none"]

NoFile == [exists |-> FALSE, data |-> <<>>]

\* config.mainLanguage
MainLanguage == "en"

\* Nothing has run yet: no ledger, no registry, an empty target tree, and a
\* vault that holds any of the documents.
InitCommon ==
    /\ now = 1
    /\ dataFile = NoFile
    /\ hpc = "idle"
    /\ sourceFiles = <<>>
    /\ targetFiles = <<>>
    /\ mdConversionEntries = <<>>
    /\ hi = 0
    /\ hres = "none"
    /\ allFilesInfoJson = NoFile
    /\ assetInfoJson = NoFile
    /\ ppc = "idle"
    /\ allSourceFilesInfo = <<>>
    /\ targetJson = <<>>
    /\ filesToDelete = <<>>
    /\ pi = 0
    /\ dirPath = <<>>
    /\ mainFolders = <<>>
    /\ assetJson = <<>>
    /\ tasks = <<>>
    /\ results = <<>>
    /\ pres = "none"
    /\ startFiles = [ledger |-> NoFile, registry |-> NoFile]
    /\ changes = NoChange
    /\ runChanges = NoChange
    /\ runAfterDone = FALSE
    /\ prevEnd = <<>>
    /\ convCount = NoCount(Docs)
    /\ lastStep = NoStep
    /\ mdpc = "idle"
    /\ sourceContent = <<>>
    /\ sourceLines = <<>>
    /\ transformedContent = <<>>
    /\ inAdmonition = FALSE
    /\ inQuote = FALSE
    /\ admonition = NoAdmonition
    /\ lastLine = NoLine

InitHandler ==
    /\ InitCommon
    /\ vault \in [Docs -> {Absent, 1}]
    /\ config = [mainLanguage |-> MainLanguage]
    /\ layout = "plain"
    /\ site = [p \in Paths |-> Absent]
    /\ startSite = [p \in Paths |-> Absent]
    /\ delCount = NoCount(Paths)

\* ------------------------------------------------------------ environment
\* Between runs the user edits the two trees. Nothing else writes while a
\* run is in progress.
Settled(k) == tasks[k].at \in {"done", "failed"}
Idle ==
    /\ hpc = "idle"
    /\ ppc = "idle"
    /\ \A k \in 1..Len(tasks) : Settled(k)

EnvObs(what, x) ==
    /\ changes' = Noted(changes, what, x)
    /\ lastStep' = NoStep
    /\ UNCHANGED <<runChanges, runAfterDone, prevEnd, startSite, convCount, delCount>>

\* A source document is created or modified: its modification time is now.
WriteSource(d) ==
    /\ Idle
    /\ now < MaxTime
    /\ now' = now + 1
    /\ vault' = [vault EXCEPT ![d] = now + 1]
    /\ UNCHANGED <<site, handlerVars, processVars, markdownVars>>
    /\ EnvObs("write", d)

\* A source document is deleted.
DeleteSource(d) ==
    /\ Idle
    /\ vault[d] # Absent
    /\ vault' = [vault EXCEPT ![d] = Absent]
    /\ UNCHANGED <<site, now, handlerVars, processVars, markdownVars>>
    /\ EnvObs("delete", d)

\* An output goes missing from the target tree.
RemoveOutput(p) ==
    /\ Idle
    /\ site[p] # Absent
    /\ site' = [site EXCEPT ![p] = Absent]
    /\ UNCHANGED <<vault, now, handlerVars, processVars, markdownVars>>
    /\ EnvObs("remove", p)

\* A file the engine did not produce appears in the target tree.
StrayOutput(p) ==
    /\ Idle
    /\ site[p] = Absent
    /\ site' = [site EXCEPT ![p] = now]
    /\ UNCHANGED <<vault, now, handlerVars, processVars, markdownVars>>
    /\ EnvObs("stray", p)

Env ==
    \/ \E d \in Docs : WriteSource(d)
    \/ \E d \in Docs : DeleteSource(d)
    \/ \E p \in DOMAIN site : RemoveOutput(p)
    \/ \E p \in DOMAIN site : StrayOutput(p)

\* ------------------------------------------------- MarkdownFileHandler
\* JSON.stringify / JSON.parse of the ledger: an entry is written as the
\* list of its keys and values.
Stringify(entries) ==
    [k \in 1..Len(entries) |->
        <<"sourcePath", entries[k].sourcePath, "targetPath", entries[k].targetPath>>]

Parse(text) ==
    [k \in 1..Len(text) |-> [sourcePath |-> text[k][2], targetPath |-> text[k][4]]]

\* saveMdFilesToJson
saveMdFilesToJson(data) == [exists |-> TRUE, data |-> Stringify(data)]

\* loadMdFilesFromJson: a missing file is an empty ledger.
loadMdFilesFromJson(file) == IF ~file.exists THEN <<>> ELSE Parse(file.data)

\* MarkdownFile.deleteFile: removes the physical output.
deleteFile(tree, p) == [tree EXCEPT ![p] = Absent]

\* MarkdownSourceFile.convertMarkdownFile: writes the output at the
\* document's target path; the write happens now.
convertMarkdownFile(tree, sourceFile, t) == [tree EXCEPT ![sourceFile.targetPath] = t]

\* startConversion with lines 46 and 47 swapped: checkSourceFiles first.
AfterStepSourcesFirst(pc, i, nTargets, nSources) ==
    IF pc = "checkSourceFiles" /\ i < nSources THEN <<"checkSourceFiles", i + 1>>
    ELSE IF pc = "start" /\ nSources > 0 THEN <<"checkSourceFiles", 1>>
    ELSE IF pc \in {"start", "checkSourceFiles"} /\ nTargets > 0
         THEN <<"checkTargetFiles", 1>>
    ELSE IF pc = "checkTargetFiles" /\ i < nTargets THEN <<"checkTargetFiles", i + 1>>
    ELSE <<"finish", 0>>

\* Where the run goes after the pass at position pc has handled element i.
AfterStep(pc, i, nTargets, nSources) ==
    IF pc = "checkTargetFiles" /\ i < nTargets THEN <<"checkTargetFiles", i + 1>>
    ELSE IF pc \in {"start", "checkTargetFiles"} /\ pc = "start" /\ nTargets > 0
         THEN <<"checkTargetFiles", 1>>
    ELSE IF pc \in {"start", "checkTargetFiles"} /\ nSources > 0
         THEN <<"checkSourceFiles", 1>>
    ELSE IF pc = "checkSourceFiles" /\ i < nSources THEN <<"checkSourceFiles", i + 1>>
    ELSE <<"finish", 0>>

\* startConversion, lines 36-45: scan both trees and load the ledger.
StartConversion ==
    /\ Idle
    /\ LET src == ParseSource(vault)
           tgt == ParseTarget(site)
           led == loadMdFilesFromJson(dataFile)
           pos == AfterStep("start", 0, Len(tgt), Len(src))
       IN /\ Len(led) + Len(src) <= MaxEntries
          /\ sourceFiles' = src
          /\ targetFiles' = tgt
          /\ mdConversionEntries' = led
          /\ hpc' = pos[1]
          /\ hi' = pos[2]
    /\ hres' = "none"
    /\ runChanges' = changes
    /\ changes' = NoChange
    /\ runAfterDone' = (hres = "done")
    /\ startSite' = site
    /\ convCount' = NoCount(Docs)
    /\ delCount' = NoCount(Paths)
    /\ lastStep' = NoStep
    /\ UNCHANGED <<envVars, dataFile, prevEnd, processVars, markdownVars>>

\* deleteAndLog: delete the target file and, when an index is given, the
\* ledger entry at that index. entryIndex = 0 stands for undefined.
deleteAndLogSite(tree, targetFile) == deleteFile(tree, targetFile.absolutepath)

deleteAndLogEntries(entries, entryIndex) ==
    IF entryIndex # 0 THEN Splice(entries, entryIndex) ELSE entries

\* checkTargetFiles deciding with "not older" in place of "newer".
StaleTargetOrEqual(targetFile, entries, entryIndex, sources) ==
    LET sourceFileIndex ==
            FindIndex(sources, LAMBDA sf : sf.absolutepath = entries[entryIndex].sourcePath)
    IN IF sourceFileIndex = 0
       THEN TRUE
       ELSE sources[sourceFileIndex].dateModified >= targetFile.dateModified

\* The decision of checkTargetFiles for one target file: TRUE when the
\* file found no source or an older one behind its entry.
StaleTarget(targetFile, entries, entryIndex, sources) ==
    LET sourceFileIndex ==
            FindIndex(sources, LAMBDA sf : sf.absolutepath = entries[entryIndex].sourcePath)
    IN IF sourceFileIndex = 0
       THEN TRUE
       ELSE sources[sourceFileIndex].dateModified > targetFile.dateModified

\* checkTargetFiles: one iteration of its forEach.
CheckTargetFile ==
    /\ hpc = "checkTargetFiles"
    /\ LET targetFile == targetFiles[hi]
           entryIndex == FindIndex(mdConversionEntries,
                             LAMBDA e : targetFile.absolutepath = e.targetPath)
           pos == AfterStep(hpc, hi, Len(targetFiles), Len(sourceFiles))
       IN /\ IF entryIndex = 0
             THEN /\ site' = deleteAndLogSite(site, targetFile)
                  /\ mdConversionEntries' = deleteAndLogEntries(mdConversionEntries, 0)
                  /\ delCount' = [delCount EXCEPT ![targetFile.absolutepath] = @ + 1]
             ELSE IF StaleTarget(targetFile, mdConversionEntries, entryIndex, sourceFiles)
             THEN /\ site' = deleteAndLogSite(site, targetFile)
                  /\ mdConversionEntries' =
                         deleteAndLogEntries(mdConversionEntries, entryIndex)
                  /\ delCount' = [delCount EXCEPT ![targetFile.absolutepath] = @ + 1]
             ELSE UNCHANGED <<site, mdConversionEntries, delCount>>
          /\ hpc' = pos[1]
          /\ hi' = pos[2]
          /\ lastStep' = [pass |-> "A", file |-> targetFile,
                          before |-> mdConversionEntries]
    /\ UNCHANGED <<vault, now, dataFile, sourceFiles, targetFiles, hres, processVars, markdownVars>>
    /\ UNCHANGED <<changes, runChanges, runAfterDone, prevEnd, startSite, convCount>>

\* checkSourceFiles deciding with "not older" in place of "newer".
StaleSourceOrEqual(sourceFile, entries, entryIndex, targets) ==
    LET targetFileIndex ==
            FindIndex(targets, LAMBDA tf : tf.absolutepath = entries[entryIndex].targetPath)
    IN IF targetFileIndex = 0
       THEN TRUE
       ELSE sourceFile.dateModified >= targets[targetFileIndex].dateModified

\* The decision of checkSourceFiles for one source file that has an entry:
\* TRUE when its recorded target is missing from the scan or older.
StaleSource(sourceFile, entries, entryIndex, targets) ==
    LET targetFileIndex ==
            FindIndex(targets, LAMBDA tf : tf.absolutepath = entries[entryIndex].targetPath)
    IN IF targetFileIndex = 0
       THEN TRUE
       ELSE sourceFile.dateModified > targets[targetFileIndex].dateModified

\* convertAndLog, after a successful conversion: the entry is pushed.
convertAndLogEntries(entries, sourceFile) ==
    Append(entries, [sourcePath |-> sourceFile.absolutepath,
                     targetPath |-> sourceFile.targetPath])

\* checkSourceFiles: one iteration of its forEach. A conversion that throws
\* is rethrown by convertAndLog and ends startConversion.
CheckSourceFile ==
    /\ hpc = "checkSourceFiles"
    /\ LET sourceFile == sourceFiles[hi]
           entryIndex == FindIndex(mdConversionEntries,
                             LAMBDA e : e.sourcePath = sourceFile.absolutepath)
           convert ==
               IF entryIndex = 0
               THEN TRUE
               ELSE StaleSource(sourceFile, mdConversionEntries, entryIndex, targetFiles)
           pos == AfterStep(hpc, hi, Len(targetFiles), Len(sourceFiles))
       IN \E throws \in BOOLEAN :
          /\ (IF throws THEN convert ELSE TRUE)
          /\ IF convert /\ throws
             THEN /\ hpc' = "idle"
                  /\ hi' = 0
                  /\ hres' = "aborted"
                  /\ UNCHANGED <<site, mdConversionEntries, convCount>>
             ELSE /\ IF convert
                     THEN /\ site' = convertMarkdownFile(site, sourceFile, now)
                          /\ mdConversionEntries' =
                                 convertAndLogEntries(mdConversionEntries, sourceFile)
                          /\ convCount' = [convCount EXCEPT ![sourceFile.absolutepath] = @ + 1]
                     ELSE UNCHANGED <<site, mdConversionEntries, convCount>>
                  /\ hpc' = pos[1]
                  /\ hi' = pos[2]
                  /\ hres' = hres
          /\ lastStep' = [pass |-> "B", file |-> sourceFile,
                          before |-> mdConversionEntries, counted |-> convCount,
                          threw |-> convert /\ throws]
    /\ UNCHANGED <<vault, now, dataFile, sourceFiles, targetFiles, processVars, markdownVars>>
    /\ UNCHANGED <<changes, runChanges, runAfterDone, prevEnd, startSite, delCount>>

\* resetDatabase: unlink the ledger file; a failure is caught and logged.
resetDatabase(file, unlinkFails) == IF unlinkFails THEN file ELSE NoFile

\* startConversion, lines 50-55: save the ledger, remove empty directories
\* (directories are not part of the state), reset the database.
FinishConversion ==
    /\ hpc = "finish"
    /\ \E unlinkFails \in BOOLEAN :
          dataFile' = resetDatabase(saveMdFilesToJson(mdConversionEntries), unlinkFails)
    /\ hpc' = "idle"
    /\ hres' = "done"
    /\ prevEnd' = mdConversionEntries
    \* the locals of the run go out of scope
    /\ sourceFiles' = <<>>
    /\ targetFiles' = <<>>
    /\ mdConversionEntries' = <<>>
    /\ hi' = 0
    /\ runChanges' = NoChange
    /\ runAfterDone' = FALSE
    /\ startSite' = [p \in Paths |-> Absent]
    /\ convCount' = NoCount(Docs)
    /\ delCount' = NoCount(Paths)
    /\ lastStep' = NoStep
    /\ UNCHANGED <<envVars, changes, processVars, markdownVars>>

Handler ==
    \/ StartConversion
    \/ CheckTargetFile
    \/ CheckSourceFile
    \/ FinishConversion

NextHandler == Env \/ Handler

SpecHandler == InitHandler /\ [][NextHandler]_vars

\* --------------------------------------------- obsidiosaurusProcess
\* The vault layouts: under "plain" each document sits in docs\, under
\* "flat" both sit in the folder docs\n+\ that carries the flatten marker.
Layouts == {"plain", "flat"}

\* The part of getSourceFileInfo / sanitizeFileName that getTargetPath reads:
\* the folders of pathSourceRelative (name, trailing "+"), the clean file
\* name, the language and the extension.
SourceShape(lay, d) ==
    [type |-> "docs",
     folders |-> IF lay = "flat"
                 THEN <<[name |-> "docs", plus |-> FALSE], [name |-> "n", plus |-> TRUE]>>
                 ELSE <<[name |-> "docs", plus |-> FALSE]>>,
     fileNameClean |-> d,
     language |-> MainLanguage,
     fileExtension |-> ".md"]

Names(folders) == [k \in 1..Len(folders) |-> folders[k].name]

\* getTargetPath: the directory of the output (main path of the type and
\* language, then the folders) and its file name. A parent folder ending in
\* "+" replaces the file name and loses the "+".
getTargetPath(shape) ==
    LET isMainLanguage == shape.language = MainLanguage
        mainPath == IF isMainLanguage
                    THEN <<>>
                    ELSE <<"i18n", shape.language, "docusaurus-plugin-content-docs", "current">>
        n == Len(shape.folders)
        parentFolder == shape.folders[n]
    IN IF parentFolder.plus
       THEN [dir |-> mainPath \o Names(SubSeq(shape.folders, 1, n - 1)),
             name |-> parentFolder.name, ext |-> shape.fileExtension]
       ELSE [dir |-> mainPath \o Names(shape.folders),
             name |-> shape.fileNameClean, ext |-> shape.fileExtension]

TargetPaths(lay) == {getTargetPath(SourceShape(lay, d)) : d \in Docs}

\* A Date object, the ISO string JSON.stringify writes for it, and
\* new Date(x).getTime() of either.
Date(n) == <<"Date", n>>
ToJSON(x) == IF x[1] = "Date" THEN <<"iso", x[2]>> ELSE x
getTime(x) == x[2]
Undefined == <<"undefined", 0>>

\* getSourceFileInfo for every document of the vault, in listing order.
ScanVault(tree, lay) ==
    LET present == SelectSeq(DocOrder, LAMBDA d : tree[d] # Absent)
    IN [k \in 1..Len(present) |->
           [pathSourceRelative |-> present[k],
            pathTargetAbsolute |-> getTargetPath(SourceShape(lay, present[k])),
            dateModified |-> Date(tree[present[k]]),
            dateModifiedTarget |-> Undefined]]

\* JSON.stringify(targetJson) / JSON.parse of it: a Date is written as its
\* ISO string, an undefined property is not written.
StringifyInfo(infos) ==
    [k \in 1..Len(infos) |->
        <<"pathSourceRelative", infos[k].pathSourceRelative,
          "pathTargetAbsolute", infos[k].pathTargetAbsolute,
          "dateModified", ToJSON(infos[k].dateModified)>>
        \o (IF infos[k].dateModifiedTarget = Undefined
            THEN <<>>
            ELSE <<"dateModifiedTarget", ToJSON(infos[k].dateModifiedTarget)>>)]

ParseInfo(text) ==
    [k \in 1..Len(text) |->
        [pathSourceRelative |-> text[k][2], pathTargetAbsolute |-> text[k][4],
         dateModified |-> text[k][6],
         dateModifiedTarget |-> IF Len(text[k]) = 8 THEN text[k][8] ELSE Undefined]]

\* Reading allFilesInfo.json: any error gives the empty ledger.
readTargetJson(file) == IF file.exists THEN ParseInfo(file.data) ELSE <<>>

\* checkFilesExistence: entries whose target is gone are dropped, the others
\* get the target's modification time.
checkFilesExistence(infos, tree) ==
    LET existent == SelectSeq(infos, LAMBDA f : tree[f.pathTargetAbsolute] # Absent)
    IN [k \in 1..Len(existent) |->
           [existent[k] EXCEPT !.dateModifiedTarget = Date(tree[existent[k].pathTargetAbsolute])]]

\* The test of getFilesToDelete for one ledger entry.
ToDelete(sourceJson, targetFile) ==
    LET m == FindIndex(sourceJson,
                 LAMBDA f : f.pathSourceRelative = targetFile.pathSourceRelative)
    IN IF m = 0
       THEN TRUE
       ELSE getTime(targetFile.dateModified) < getTime(sourceJson[m].dateModified)

\* getFilesToDelete: the indices of the ledger entries to delete, ascending.
getFilesToDelete(sourceJson, infos) ==
    LET idx == SelectSeq([k \in 1..Len(infos) |-> k],
                         LAMBDA k : ToDelete(sourceJson, infos[k]))
    IN [k \in 1..Len(idx) |->
           [index |-> idx[k], pathKey |-> infos[idx[k]].pathSourceRelative]]

\* filesToDelete.sort((a, b) => b.index - a.index)
SortDescending(list) == [k \in 1..Len(list) |-> list[Len(list) + 1 - k]]

\* compareSource: the indices of the source files without a ledger entry.
compareSource(sourceJson, infos) ==
    SelectSeq([k \in 1..Len(sourceJson) |-> k],
              LAMBDA k : FindIndex(infos,
                  LAMBDA f : f.pathSourceRelative = sourceJson[k].pathSourceRelative) = 0)

\* ---- asset registry
\* The attachments a document's text references, in line order. The text
\* is the one written at modification time t: document "a" embeds the image
\* when first written and the other file after a modification, document "b"
\* embeds nothing at first and the resized image after a modification.
Refs(d, t) ==
    IF d = "a"
    THEN IF t <= 1 THEN <<[fileName |-> "img", size |-> "standard"]>>
                   ELSE <<[fileName |-> "pdf", size |-> "standard"]>>
    ELSE IF t <= 1 THEN <<>>
                   ELSE <<[fileName |-> "img", size |-> "200"]>>

\* getOrCreateSize without the includes test of line 637.
getOrCreateSizeAlwaysPush(sizes, size, processedFileName) ==
    LET m == FindIndex(sizes, LAMBDA z : z.size = size)
    IN IF m = 0
       THEN Append(sizes, [size |-> size, inDocuments |-> <<processedFileName>>, newName |-> <<>>])
       ELSE [sizes EXCEPT ![m].inDocuments = Append(@, processedFileName)]

\* getOrCreateSize
getOrCreateSize(sizes, size, processedFileName) ==
    LET m == FindIndex(sizes, LAMBDA z : z.size = size)
    IN IF m = 0
       THEN Append(sizes, [size |-> size, inDocuments |-> <<processedFileName>>, newName |-> <<>>])
       ELSE IF \E k \in 1..Len(sizes[m].inDocuments) :
                   sizes[m].inDocuments[k] = processedFileName
       THEN sizes
       ELSE [sizes EXCEPT ![m].inDocuments = Append(@, processedFileName)]

\* addToAssetJson without the find of line 657: a new asset every time.
addToAssetJsonAlwaysPush(registry, fileName, size, processedFileName) ==
    Append(registry,
           [fileName |-> fileName,
            sizes |-> getOrCreateSize(<<>>, size, processedFileName)])

\* addToAssetJson, for an attachment whose source path is known.
addToAssetJson(registry, fileName, size, processedFileName) ==
    LET m == FindIndex(registry, LAMBDA a : a.fileName = fileName)
    IN IF m # 0
       THEN [registry EXCEPT ![m].sizes = getOrCreateSize(@, size, processedFileName)]
       ELSE Append(registry,
                [fileName |-> fileName,
                 sizes |-> getOrCreateSize(<<>>, size, processedFileName)])

\* processMarkdown, as far as the registry goes: every reference of the
\* document is registered.
RECURSIVE RegisterAll(_, _, _)
RegisterAll(registry, refs, processedFileName) ==
    IF refs = <<>>
    THEN registry
    ELSE RegisterAll(
             addToAssetJson(registry, Head(refs).fileName, Head(refs).size, processedFileName),
             Tail(refs), processedFileName)

\* processAssetDeletion reads asset.AssetTypeInDocument and, of each of its
\* items, .files. An object without the property gives undefined, and
\* reading .length of undefined throws a TypeError.
HasAssetTypeInDocument(asset) == "AssetTypeInDocument" \in DOMAIN asset
HasPathKey(fileToDelete) == "pathKey" \in DOMAIN fileToDelete

\* Lines 532-553, the loop over inclusion.files from the last to the first:
\* the first match is spliced and the loop breaks.
ReleaseFile(files, pathKey) ==
    LET at == {k \in 1..Len(files) : files[k] = pathKey}
    IN IF at = {}
       THEN files
       ELSE Splice(files, CHOOSE k \in at : \A j \in at : j <= k)

\* Lines 528-555, the loop over asset.AssetTypeInDocument: an inclusion that
\* lost its last file is spliced (line 539).
ReleaseInclusions(inclusions, pathKey) ==
    LET released == [j \in 1..Len(inclusions) |->
                        [inclusions[j] EXCEPT !.files = ReleaseFile(@, pathKey)]]
        kept == SelectSeq([j \in 1..Len(inclusions) |-> j],
                          LAMBDA j : released[j].files # <<>> \/ inclusions[j].files = <<>>)
    IN [j \in 1..Len(kept) |-> released[kept[j]]]

\* Lines 524-556, the loop over assetJson for one file of the delete-set: an
\* asset that lost its last inclusion is spliced (line 550).
ReleaseOne(registry, pathKey) ==
    LET released == [i \in 1..Len(registry) |->
                        [registry[i] EXCEPT
                            !.AssetTypeInDocument = ReleaseInclusions(@, pathKey)]]
        kept == SelectSeq([i \in 1..Len(registry) |-> i],
                          LAMBDA i : released[i].AssetTypeInDocument # <<>>
                                     \/ registry[i].AssetTypeInDocument = <<>>)
    IN [i \in 1..Len(kept) |-> released[kept[i]]]

\* processAssetDeletion throws: some file of the delete-set has a pathKey
\* and the loop over assetJson comes to an asset without AssetTypeInDocument
\* (such an asset is never spliced, so it is reached).
processAssetDeletionThrows(toDelete, registry) ==
    /\ \E k \in 1..Len(toDelete) : HasPathKey(toDelete[k])
    /\ \E i \in 1..Len(registry) : ~HasAssetTypeInDocument(registry[i])

\* processAssetDeletion when it does not throw: the registry it leaves.
RECURSIVE processAssetDeletion(_, _)
processAssetDeletion(toDelete, registry) ==
    IF toDelete = <<>>
    THEN registry
    ELSE IF ~HasPathKey(Head(toDelete))
    THEN processAssetDeletion(Tail(toDelete), registry)
    ELSE processAssetDeletion(Tail(toDelete), ReleaseOne(registry, Head(toDelete).pathKey))

\* JSON.stringify(assetJson) / JSON.parse of it.
StringifyAssets(registry) ==
    [k \in 1..Len(registry) |->
        <<"fileName", registry[k].fileName, "sizes",
          [j \in 1..Len(registry[k].sizes) |->
              <<"size", registry[k].sizes[j].size,
                "inDocuments", registry[k].sizes[j].inDocuments,
                "newName", registry[k].sizes[j].newName>>]>>]

ParseAssets(text) ==
    [k \in 1..Len(text) |->
        [fileName |-> text[k][2],
         sizes |-> [j \in 1..Len(text[k][4]) |->
                       [size |-> text[k][4][j][2], inDocuments |-> text[k][4][j][4],
                        newName |-> text[k][4][j][6]]]]]

\* ---- the run
InitProcess ==
    /\ InitCommon
    /\ vault \in [Docs -> {Absent, 1}]
    /\ config = [mainLanguage |-> MainLanguage]
    /\ layout \in Layouts
    /\ site = [p \in TargetPaths(layout) |-> Absent]
    /\ startSite = [p \in TargetPaths(layout) |-> Absent]
    /\ delCount = NoCount(TargetPaths(layout))

WriteFile(text) == [exists |-> TRUE, data |-> text]

\* obsidiosaurusProcess, lines 17-48, and the sort of deleteFiles (line 421):
\* scan the vault, read the ledger, drop the entries whose target is gone,
\* compute the delete-set.
ProcessStart ==
    /\ Idle
    /\ LET sourceJson == ScanVault(vault, layout)
           infos == checkFilesExistence(readTargetJson(allFilesInfoJson), site)
       IN /\ allSourceFilesInfo' = sourceJson
          /\ targetJson' = infos
          /\ filesToDelete' = SortDescending(getFilesToDelete(sourceJson, infos))
    /\ pi' = 1
    /\ ppc' = "deleteFiles"
    /\ pres' = "none"
    /\ assetJson' = <<>>
    /\ tasks' = <<>>
    /\ results' = <<>>
    /\ startFiles' = [ledger |-> allFilesInfoJson, registry |-> assetInfoJson]
    /\ runChanges' = changes
    /\ changes' = NoChange
    /\ runAfterDone' = (pres = "done")
    /\ startSite' = site
    /\ convCount' = NoCount(Docs)
    /\ delCount' = NoCount(DOMAIN site)
    /\ lastStep' = NoStep
    /\ UNCHANGED <<envVars, handlerVars, markdownVars, layout, scanVars, allFilesInfoJson, assetInfoJson, prevEnd>>

\* deleteFiles: one iteration of its loop. An unlink of a missing file
\* (ENOENT) counts as a deletion; any other error keeps the entry.
DeleteFile ==
    /\ ppc = "deleteFiles"
    /\ pi <= Len(filesToDelete)
    /\ LET fileToDelete == filesToDelete[pi]
           targetFile == targetJson[fileToDelete.index]
           p == targetFile.pathTargetAbsolute
       IN /\ IF site[p] = Absent
             THEN /\ targetJson' = Splice(targetJson, fileToDelete.index)
                  /\ UNCHANGED <<site, delCount>>
             ELSE \E unlinkFails \in BOOLEAN :
                     IF unlinkFails
                     THEN UNCHANGED <<site, delCount, targetJson>>
                     ELSE /\ site' = [site EXCEPT ![p] = Absent]
                          /\ delCount' = [delCount EXCEPT ![p] = @ + 1]
                          /\ targetJson' = Splice(targetJson, fileToDelete.index)
          /\ lastStep' = [pass |-> "delete", file |-> targetFile, before |-> targetJson]
    /\ pi' = pi + 1
    /\ UNCHANGED <<vault, now, handlerVars, markdownVars, layout, scanVars, allFilesInfoJson, assetInfoJson, ppc,
                   allSourceFilesInfo, filesToDelete, assetJson, tasks, results, pres,
                   startFiles>>
    /\ UNCHANGED <<changes, runChanges, runAfterDone, prevEnd, startSite, convCount>>

\* obsidiosaurusProcess, lines 52-94: read the registry (a missing file is
\* created as '[]') and release the deleted documents' assets; a throw of
\* processAssetDeletion rejects the run there. Otherwise write the ledger
\* and read it back, and compute the files to process. Without files to
\* process the run returns here; otherwise copyMarkdownFilesToTarget starts
\* one task per file.
Reconcile ==
    /\ ppc = "deleteFiles"
    /\ pi > Len(filesToDelete)
    /\ LET registry == IF assetInfoJson.exists THEN ParseAssets(assetInfoJson.data) ELSE <<>>
           written == WriteFile(StringifyInfo(targetJson))
           reread == ParseInfo(written.data)
           filesToProcess == compareSource(allSourceFilesInfo, reread)
       IN /\ assetInfoJson' = IF assetInfoJson.exists THEN assetInfoJson ELSE WriteFile(<<>>)
          /\ IF processAssetDeletionThrows(filesToDelete, registry)
             THEN /\ assetJson' = registry
                  /\ ppc' = "return"
                  /\ pres' = "rejected"
                  /\ tasks' = <<>>
                  /\ UNCHANGED <<allFilesInfoJson, targetJson>>
             ELSE /\ assetJson' = processAssetDeletion(filesToDelete, registry)
                  /\ allFilesInfoJson' = written
                  /\ targetJson' = reread
                  /\ IF filesToProcess = <<>>
                     THEN /\ ppc' = "return"
                          /\ pres' = "done"
                          /\ tasks' = <<>>
                     ELSE /\ ppc' = "copy"
                          /\ pres' = pres
                          /\ tasks' = [k \in 1..Len(filesToProcess) |->
                                          [file |-> allSourceFilesInfo[filesToProcess[k]],
                                           at |-> "readFile"]]
    /\ results' = <<>>
    /\ lastStep' = NoStep
    /\ UNCHANGED <<envVars, handlerVars, markdownVars, layout, scanVars, allSourceFilesInfo, filesToDelete, pi,
                   startFiles>>
    /\ UNCHANGED <<changes, runChanges, runAfterDone, prevEnd, startSite, convCount, delCount>>

\* A task of copyMarkdownFilesToTarget rejects: Promise.all rejects with it
\* and the run ends there, unless an earlier rejection already ended it.
\* The other tasks are not cancelled.
Rejected(k) ==
    /\ tasks' = [tasks EXCEPT ![k].at = "failed"]
    /\ IF ppc = "copy"
       THEN /\ ppc' = "return"
            /\ pres' = "aborted"
            /\ lastStep' = [pass |-> "abort", file |-> tasks[k].file,
                            before |-> targetJson, counted |-> convCount]
       ELSE UNCHANGED <<ppc, pres, lastStep>>

TaskFrame ==
    /\ UNCHANGED <<vault, now, handlerVars, markdownVars, layout, scanVars, allFilesInfoJson, assetInfoJson,
                   allSourceFilesInfo, targetJson, filesToDelete, pi, startFiles>>
    /\ UNCHANGED <<changes, runChanges, runAfterDone, prevEnd, startSite, delCount>>

\* Line 490: the task reads its source file.
TaskReadFile(k) ==
    /\ tasks[k].at = "readFile"
    /\ \E readFails \in BOOLEAN :
          IF readFails
          THEN Rejected(k)
          ELSE /\ tasks' = [tasks EXCEPT ![k].at = "processMarkdown"]
               /\ UNCHANGED <<ppc, pres, lastStep>>
    /\ UNCHANGED <<site, assetJson, results, convCount>>
    /\ TaskFrame

\* Line 493: processMarkdown registers the document's attachments.
TaskProcessMarkdown(k) ==
    /\ tasks[k].at = "processMarkdown"
    /\ assetJson' = RegisterAll(assetJson,
                                Refs(tasks[k].file.pathSourceRelative,
                                     vault[tasks[k].file.pathSourceRelative]),
                                tasks[k].file.pathSourceRelative)
    /\ tasks' = [tasks EXCEPT ![k].at = "writeFile"]
    /\ UNCHANGED <<site, results, convCount, ppc, pres, lastStep>>
    /\ TaskFrame

\* Lines 494-502: the task writes the output and pushes its file to results.
TaskWriteFile(k) ==
    /\ tasks[k].at = "writeFile"
    /\ \E writeFails \in BOOLEAN :
          IF writeFails
          THEN /\ Rejected(k)
               /\ UNCHANGED <<site, results, convCount>>
          ELSE /\ site' = [site EXCEPT ![tasks[k].file.pathTargetAbsolute] = now]
               /\ results' = Append(results, tasks[k].file)
               /\ convCount' = [convCount EXCEPT ![tasks[k].file.pathSourceRelative] = @ + 1]
               /\ tasks' = [tasks EXCEPT ![k].at = "done"]
               /\ UNCHANGED <<ppc, pres, lastStep>>
    /\ UNCHANGED assetJson
    /\ TaskFrame

\* copyMarkdownFilesToTarget, lines 507-512: every task has resolved; the
\* results join the ledger and the registry is written.
SaveRegistry ==
    /\ ppc = "copy"
    /\ \A k \in 1..Len(tasks) : tasks[k].at = "done"
    /\ targetJson' = targetJson \o results
    /\ assetInfoJson' = WriteFile(StringifyAssets(assetJson))
    /\ ppc' = "save"
    /\ UNCHANGED <<envVars, handlerVars, markdownVars, layout, scanVars, allFilesInfoJson, allSourceFilesInfo,
                   filesToDelete, pi, assetJson, tasks, results, pres, startFiles, obsVars>>

\* obsidiosaurusProcess, line 96: the ledger is written and the run returns.
SaveLedger ==
    /\ ppc = "save"
    /\ allFilesInfoJson' = WriteFile(StringifyInfo(targetJson))
    /\ ppc' = "return"
    /\ pres' = "done"
    /\ UNCHANGED <<envVars, handlerVars, markdownVars, layout, scanVars, assetInfoJson, allSourceFilesInfo, targetJson,
                   filesToDelete, pi, assetJson, tasks, results, startFiles, obsVars>>

\* The run has returned, or rejected, and none of its tasks is still
\* running: its locals go out of scope.
Return ==
    /\ ppc = "return"
    /\ \A k \in 1..Len(tasks) : Settled(k)
    /\ ppc' = "idle"
    /\ allSourceFilesInfo' = <<>>
    /\ targetJson' = <<>>
    /\ filesToDelete' = <<>>
    /\ pi' = 0
    /\ assetJson' = <<>>
    /\ tasks' = <<>>
    /\ results' = <<>>
    /\ startFiles' = [ledger |-> NoFile, registry |-> NoFile]
    /\ runChanges' = NoChange
    /\ runAfterDone' = FALSE
    /\ startSite' = [p \in DOMAIN site |-> Absent]
    /\ convCount' = NoCount(Docs)
    /\ delCount' = NoCount(DOMAIN site)
    /\ lastStep' = NoStep
    /\ UNCHANGED <<envVars, handlerVars, markdownVars, layout, scanVars, allFilesInfoJson, assetInfoJson, pres,
                   changes, prevEnd>>

Process ==
    \/ ProcessStart
    \/ DeleteFile
    \/ Reconcile
    \/ \E k \in 1..Len(tasks) : TaskReadFile(k)
    \/ \E k \in 1..Len(tasks) : TaskProcessMarkdown(k)
    \/ \E k \in 1..Len(tasks) : TaskWriteFile(k)
    \/ SaveRegistry
    \/ SaveLedger
    \/ Return

Next == Env \/ Process

Spec == InitProcess /\ [][Next]_vars

\* ------------------------------ obsidiosaurusProcess, the older copy
\* part_000 holds an older obsidiosaurusProcess: its deleteFiles unlinks in
\* one loop and updates the ledger in a second one, it has no
\* processAssetDeletion, and it reads assetInfo.json, without creating it,
\* only when there are files to process.
InitPart000 ==
    /\ InitProcess
    /\ layout = "plain"

\* The registry file is put in place by hand: part_000 never creates it.
CreateRegistryFile ==
    /\ Idle
    /\ ~assetInfoJson.exists
    /\ assetInfoJson' = WriteFile(<<>>)
    /\ UNCHANGED <<envVars, handlerVars, markdownVars, layout, scanVars, allFilesInfoJson, ppc, allSourceFilesInfo,
                   targetJson, filesToDelete, pi, assetJson, tasks, results, pres, startFiles,
                   obsVars>>

\* getFilesToDelete of part_000: the same test, the pushed records carry
\* the index only.
getFilesToDelete000(sourceJson, infos) ==
    LET idx == SelectSeq([k \in 1..Len(infos) |-> k],
                         LAMBDA k : ToDelete(sourceJson, infos[k]))
    IN [k \in 1..Len(idx) |-> [index |-> idx[k]]]

\* obsidiosaurusProcess of part_000, lines 16-43.
ProcessStart000 ==
    /\ Idle
    /\ LET sourceJson == ScanVault(vault, layout)
           infos == checkFilesExistence(readTargetJson(allFilesInfoJson), site)
       IN /\ allSourceFilesInfo' = sourceJson
          /\ targetJson' = infos
          /\ filesToDelete' = getFilesToDelete000(sourceJson, infos)
    /\ pi' = 1
    /\ ppc' = "unlink"
    /\ pres' = "none"
    /\ assetJson' = <<>>
    /\ tasks' = <<>>
    /\ results' = <<>>
    /\ startFiles' = [ledger |-> allFilesInfoJson, registry |-> assetInfoJson]
    /\ runChanges' = changes
    /\ changes' = NoChange
    /\ runAfterDone' = (pres = "done")
    /\ startSite' = site
    /\ convCount' = NoCount(Docs)
    /\ delCount' = NoCount(DOMAIN site)
    /\ lastStep' = NoStep
    /\ UNCHANGED <<envVars, handlerVars, markdownVars, layout, scanVars, allFilesInfoJson, assetInfoJson, prevEnd>>

\* deleteFiles of part_000, first loop (lines 394-409): one unlink. ENOENT
\* is a deletion, any other error is pushed to errors; the ledger is not
\* touched here.
Unlink000 ==
    /\ ppc = "unlink"
    /\ pi <= Len(filesToDelete)
    /\ LET targetFile == targetJson[filesToDelete[pi].index]
           p == targetFile.pathTargetAbsolute
       IN /\ IF site[p] = Absent
             THEN UNCHANGED <<site, delCount>>
             ELSE \E unlinkFails \in BOOLEAN :
                     IF unlinkFails
                     THEN UNCHANGED <<site, delCount>>
                     ELSE /\ site' = [site EXCEPT ![p] = Absent]
                          /\ delCount' = [delCount EXCEPT ![p] = @ + 1]
          /\ lastStep' = [pass |-> "delete", file |-> targetFile, before |-> targetJson]
    /\ pi' = pi + 1
    /\ UNCHANGED <<vault, now, handlerVars, markdownVars, layout, scanVars, allFilesInfoJson, assetInfoJson, ppc,
                   allSourceFilesInfo, targetJson, filesToDelete, assetJson, tasks, results,
                   pres, startFiles>>
    /\ UNCHANGED <<changes, runChanges, runAfterDone, prevEnd, startSite, convCount>>

\* The property "path" of an object: neither the ledger entries nor the
\* records of the delete-set have one.
PathProperty(x) == IF "path" \in DOMAIN x THEN x.path ELSE Undefined

\* deleteFiles of part_000, second loop (lines 412-420). No error message
\* includes the text of fileToDelete.path, so every file of the delete-set
\* passes the test, and findIndex compares file.path with
\* fileToDelete.path.
RECURSIVE removeFromTargetJson000(_, _)
removeFromTargetJson000(toDelete, infos) ==
    IF toDelete = <<>>
    THEN infos
    ELSE LET index == FindIndex(infos,
                          LAMBDA file : PathProperty(file) = PathProperty(Head(toDelete)))
         IN removeFromTargetJson000(Tail(toDelete),
                IF index # 0 THEN Splice(infos, index) ELSE infos)

RemoveFromTargetJson000 ==
    /\ ppc = "unlink"
    /\ pi > Len(filesToDelete)
    /\ targetJson' = removeFromTargetJson000(filesToDelete, targetJson)
    /\ ppc' = "removed"
    /\ UNCHANGED <<envVars, handlerVars, markdownVars, layout, scanVars, allFilesInfoJson, assetInfoJson,
                   allSourceFilesInfo, filesToDelete, pi, assetJson, tasks, results, pres,
                   startFiles, obsVars>>

\* obsidiosaurusProcess of part_000, lines 51-69: write the ledger and read
\* it back, compute the files to process; with files to process, read the
\* registry (a missing file rejects the run) and start the tasks.
Reconcile000 ==
    /\ ppc = "removed"
    /\ LET written == WriteFile(StringifyInfo(targetJson))
           reread == ParseInfo(written.data)
           filesToProcess == compareSource(allSourceFilesInfo, reread)
       IN /\ allFilesInfoJson' = written
          /\ targetJson' = reread
          /\ IF filesToProcess = <<>>
             THEN /\ ppc' = "return"
                  /\ pres' = "done"
                  /\ tasks' = <<>>
                  /\ assetJson' = assetJson
             ELSE IF ~assetInfoJson.exists
             THEN /\ ppc' = "return"
                  /\ pres' = "aborted"
                  /\ tasks' = <<>>
                  /\ assetJson' = assetJson
             ELSE /\ ppc' = "copy"
                  /\ pres' = pres
                  /\ assetJson' = ParseAssets(assetInfoJson.data)
                  /\ tasks' = [k \in 1..Len(filesToProcess) |->
                                  [file |-> allSourceFilesInfo[filesToProcess[k]],
                                   at |-> "readFile"]]
    /\ results' = <<>>
    /\ lastStep' = NoStep
    /\ UNCHANGED <<envVars, handlerVars, markdownVars, layout, scanVars, assetInfoJson, allSourceFilesInfo,
                   filesToDelete, pi, startFiles>>
    /\ UNCHANGED <<changes, runChanges, runAfterDone, prevEnd, startSite, convCount, delCount>>

Process000 ==
    \/ ProcessStart000
    \/ Unlink000
    \/ RemoveFromTargetJson000
    \/ Reconcile000
    \/ \E k \in 1..Len(tasks) : TaskReadFile(k)
    \/ \E k \in 1..Len(tasks) : TaskProcessMarkdown(k)
    \/ \E k \in 1..Len(tasks) : TaskWriteFile(k)
    \/ SaveRegistry
    \/ SaveLedger
    \/ Return

NextPart000 == Env \/ CreateRegistryFile \/ Process000

SpecPart000 == InitPart000 /\ [][NextPart000]_vars

\* ---------------------------------------------- claims on the handler
\* The ledger entries recorded for a source document / a target path.
EntriesOf(entries, d) == {k \in 1..Len(entries) : entries[k].sourcePath = d}
EntriesAt(entries, p) == {k \in 1..Len(entries) : entries[k].targetPath = p}
Least(S) == CHOOSE k \in S : \A j \in S : k <= j

\* A run of the handler has finished both passes after a completed run.
HandlerRerun == hpc = "finish" /\ runAfterDone

\* C1: when a run completes and nothing changes before the next run, the
\* next run converts nothing and deletes nothing.
C1_SecondRunDoesNothing ==
    (HandlerRerun /\ runChanges = NoChange)
        => (convCount = NoCount(Docs) /\ delCount = NoCount(Paths))

\* C2: the ledger a run would load after a completed run is the in-memory
\* ledger that run ended with.
C2_LedgerSurvivesRun ==
    (hpc = "idle" /\ hres = "done") => loadMdFilesFromJson(dataFile) = prevEnd

\* C3: the ledger never holds two entries with the same target path.
C3_OneEntryPerTarget ==
    \A p \in Paths : Cardinality(EntriesAt(mdConversionEntries, p)) <= 1

\* C4: a converted document whose modification time is moved past its
\* target's is converted exactly once by the next run, which leaves exactly
\* one ledger entry for it.
TouchedOnly(d) ==
    /\ HandlerRerun
    /\ runChanges = <<<<"write", d>>>>
    /\ EntriesOf(prevEnd, d) # {}
    /\ startSite[TargetOf(d)] # Absent
    /\ vault[d] > startSite[TargetOf(d)]

C4_TouchReconvertsOnce ==
    \A d \in Docs :
        TouchedOnly(d) =>
            /\ convCount[d] = 1
            /\ Cardinality(EntriesOf(mdConversionEntries, d)) = 1

\* C5: when a converted document is deleted, the next run deletes its
\* output and its ledger entry and no other output and no other entry.
DeletedOnly(d) ==
    /\ HandlerRerun
    /\ runChanges = <<<<"delete", d>>>>
    /\ EntriesOf(prevEnd, d) # {}
    /\ startSite[TargetOf(d)] # Absent

C5_DeleteRemovesOnlyItsOutput ==
    \A d \in Docs :
        DeletedOnly(d) =>
            /\ delCount = [p \in Paths |-> IF p = TargetOf(d) THEN 1 ELSE 0]
            /\ mdConversionEntries = SelectSeq(prevEnd, LAMBDA e : e.sourcePath # d)

\* Pass A of the handler: a target file that has no ledger entry when
\* checkTargetFiles reaches it is deleted by that step.
OrphanStep ==
    /\ lastStep.pass = "A"
    /\ EntriesAt(lastStep.before, lastStep.file.absolutepath) = {}

HandlerOrphanDeleted ==
    OrphanStep =>
        /\ site[lastStep.file.absolutepath] = Absent
        /\ mdConversionEntries = lastStep.before

\* C7: a target file that has a ledger entry when pass A reaches it is
\* deleted, and the entry dropped, exactly when the entry's source is gone
\* or strictly newer than the target; otherwise both are kept.
EntryStep ==
    /\ lastStep.pass = "A"
    /\ EntriesAt(lastStep.before, lastStep.file.absolutepath) # {}

SourceStep == lastStep.pass = "B" /\ ~lastStep.threw

HandlerFailedConversionAborts ==
    (lastStep.pass = "B" /\ lastStep.threw) =>
        /\ mdConversionEntries = lastStep.before
        /\ convCount = lastStep.counted
        /\ hpc = "idle"
        /\ hres = "aborted"

\* ------------------------------------- claims on obsidiosaurusProcess
\* The ledger entries recorded for a target path.
InfosAt(infos, p) == {k \in 1..Len(infos) : infos[k].pathTargetAbsolute = p}

\* C6: once the deletions of a run are over, no file of the target tree
\* is left without a ledger entry for its path.
C6_NoOutputWithoutEntry ==
    (ppc = "deleteFiles" /\ pi > Len(filesToDelete)) =>
        \A p \in DOMAIN site : site[p] # Absent => InfosAt(targetJson, p) # {}

\* C9: once the conversion of a document has failed, the ledger is as it
\* was, no document is converted any more, and the run has ended aborted.
C9_FailedConversionAborts ==
    lastStep.pass = "abort" =>
        /\ targetJson = lastStep.before
        /\ convCount = lastStep.counted
        /\ pres = "aborted"
        /\ ppc = "return"

\* What the two persisted files hold: a missing file counts as an empty
\* list, and the target's modification time that checkFilesExistence adds
\* to an entry is left out.
LedgerContent(file) ==
    LET infos == readTargetJson(file)
    IN [k \in 1..Len(infos) |->
           <<infos[k].pathSourceRelative, infos[k].pathTargetAbsolute, infos[k].dateModified>>]

RegistryContent(file) == IF file.exists THEN ParseAssets(file.data) ELSE <<>>

\* C10: outside the two final writes, the persisted ledger and registry
\* are both as the run found them, or the run has completed and both hold
\* its end state.
C10_AllOrNothing ==
    ppc \in {"deleteFiles", "copy", "return"} =>
        \/ /\ LedgerContent(allFilesInfoJson) = LedgerContent(startFiles.ledger)
           /\ RegistryContent(assetInfoJson) = RegistryContent(startFiles.registry)
        \/ /\ ppc = "return"
           /\ pres = "done"
           /\ LedgerContent(allFilesInfoJson) =
                  LedgerContent(WriteFile(StringifyInfo(targetJson)))
           /\ RegistryContent(assetInfoJson) = assetJson

\* ---- obsidiosaurusProcess on the cases of C3 and C4
InfosOf(infos, d) == {k \in 1..Len(infos) : infos[k].pathSourceRelative = d}
ProcessRerun == ppc = "return" /\ pres = "done" /\ runAfterDone
PathOf(d) == getTargetPath(SourceShape(layout, d))

\* The ledger of obsidiosaurusProcess never holds two entries with the same
\* target path.
ProcessOneEntryPerTarget ==
    \A p \in DOMAIN site : Cardinality(InfosAt(targetJson, p)) <= 1

\* A converted document touched forward, its old output unlinked by the
\* next run: that run converts it once and leaves one entry for it.
ProcessTouchReconvertsOnce ==
    \A d \in Docs :
        (/\ ProcessRerun
         /\ layout = "plain"
         /\ runChanges = <<<<"write", d>>>>
         /\ InfosOf(readTargetJson(startFiles.ledger), d) # {}
         /\ startSite[PathOf(d)] # Absent
         /\ delCount[PathOf(d)] = 1)
            => /\ convCount[d] = 1
               /\ Cardinality(InfosOf(targetJson, d)) = 1

\* ------------------------------------------------ the asset registry alone
\* recordUsage and reference release applied to a registry, one call after
\* the other, from the empty registry or from a registry file in the shape
\* processAssetDeletion reads.
AssetNames == {"img", "pdf"}
SizeTags == {"standard", "200"}
AssetPaths == {Undefined, <<"assets", "file">>}

\* addToAssetJson throws: line 652 for an attachment without source path,
\* and getOrCreateSize (line 629) on an asset without a sizes array.
addToAssetJsonThrows(registry, fileName, path) ==
    \/ path = Undefined
    \/ \E m \in 1..Len(registry) :
          /\ registry[m].fileName = fileName
          /\ \A j \in 1..(m-1) : registry[j].fileName # fileName
          /\ "sizes" \notin DOMAIN registry[m]

\* Registries of one or two assets as processAssetDeletion reads them, every
\* inclusion listing the documents that use it.
Inclusions ==
    LET lists == {<<"a">>, <<"b">>, <<"a", "b">>, <<"b", "a">>}
    IN {<<[files |-> x]>> : x \in lists}
       \cup {<<[files |-> x], [files |-> y]>> : x \in lists, y \in lists}
RegistriesWithInclusions ==
    {<<[fileName |-> "img", AssetTypeInDocument |-> x]>> : x \in Inclusions}
    \cup {<<[fileName |-> "img", AssetTypeInDocument |-> x],
            [fileName |-> "pdf", AssetTypeInDocument |-> <<[files |-> y]>>]>> :
              x \in Inclusions, y \in {<<"a">>, <<"b">>}}

\* The delete-sets getFilesToDelete can build over the documents.
DeleteSets ==
    {<<>>}
    \cup {<<[index |-> 1, pathKey |-> d]>> : d \in Docs}
    \cup {<<[index |-> 2, pathKey |-> x[1]], [index |-> 1, pathKey |-> x[2]]>> :
             x \in {y \in Docs \X Docs : y[1] # y[2]}}

RegistryFrame == UNCHANGED <<envVars, handlerVars, markdownVars, layout, scanVars, allFilesInfoJson, assetInfoJson,
                             ppc, allSourceFilesInfo, targetJson, filesToDelete, pi, tasks,
                             results, pres, startFiles, changes, runChanges, runAfterDone,
                             prevEnd, startSite, convCount, delCount>>

\* JSON.parse of a registry file (part_001, line 56).
LoadRegistry ==
    /\ assetJson = <<>>
    /\ lastStep = NoStep
    /\ assetJson' \in RegistriesWithInclusions
    /\ lastStep' = [pass |-> "load"]
    /\ RegistryFrame

\* One call of addToAssetJson.
RecordUsage ==
    /\ \E fileName \in AssetNames, size \in SizeTags, path \in AssetPaths, doc \in Docs :
          LET threw == addToAssetJsonThrows(assetJson, fileName, path)
          IN /\ assetJson' = IF threw THEN assetJson
                             ELSE addToAssetJson(assetJson, fileName, size, doc)
             /\ lastStep' = [pass |-> "recordUsage", threw |-> threw, before |-> assetJson,
                             fileName |-> fileName, size |-> size, doc |-> doc]
    /\ RegistryFrame

\* One call of processAssetDeletion.
ReleaseReferences ==
    /\ \E toDelete \in DeleteSets :
          LET threw == processAssetDeletionThrows(toDelete, assetJson)
          IN /\ assetJson' = IF threw THEN assetJson
                             ELSE processAssetDeletion(toDelete, assetJson)
             /\ lastStep' = [pass |-> "release", threw |-> threw, before |-> assetJson,
                             toDelete |-> toDelete]
    /\ RegistryFrame

NextRegistry == LoadRegistry \/ RecordUsage \/ ReleaseReferences

InitRegistry ==
    /\ InitPart000
    /\ \A doc \in Docs : vault[doc] = Absent

SpecRegistry == InitRegistry /\ [][NextRegistry]_vars

\* ------------------------------------------------------------- strings
\* A string is the sequence of its characters. The operators below are the
\* String and Array methods the rewrites call, under their own names.
Digits == {"0", "1", "2", "3", "4", "5", "6", "7", "8", "9"}
WhiteSpace == {" ", "\t"}
UpperCase == <<"A", "B", "C", "D", "E", "F", "G", "H", "I", "J", "K", "L", "M", "N", "O", "P", "Q", "R", "S", "T", "U", "V", "W", "X", "Y", "Z">>
LowerCase == <<"a", "b", "c", "d", "e", "f", "g", "h", "i", "j", "k", "l", "m", "n", "o", "p", "q", "r", "s", "t", "u", "v", "w", "x", "y", "z">>

startsWithAt(s, sub, i) ==
    /\ i >= 1
    /\ i + Len(sub) - 1 <= Len(s)
    /\ SubSeq(s, i, i + Len(sub) - 1) = sub

\* The first position >= from where sub occurs in s, 1-based; 0 for none.
indexOfFrom(s, sub, from) ==
    LET at == {i \in from..(Len(s) - Len(sub) + 1) : startsWithAt(s, sub, i)}
    IN IF at = {} THEN 0 ELSE Least(at)

includes(s, sub) == indexOfFrom(s, sub, 1) # 0
endsWith(s, suffix) == startsWithAt(s, suffix, Len(s) - Len(suffix) + 1)

\* String.prototype.replace with a string pattern: the first occurrence.
\* (The replacement patterns $&, $1, ... are left out: no text here has a $.)
replace(s, sub, by) ==
    LET i == indexOfFrom(s, sub, 1)
    IN IF i = 0 THEN s ELSE SubSeq(s, 1, i - 1) \o by \o SubSeq(s, i + Len(sub), Len(s))

\* String.prototype.replace with a /.../g pattern of literal characters.
RECURSIVE replaceAll(_, _, _)
replaceAll(s, sub, by) ==
    LET i == indexOfFrom(s, sub, 1)
    IN IF i = 0 THEN s
       ELSE SubSeq(s, 1, i - 1) \o by \o replaceAll(SubSeq(s, i + Len(sub), Len(s)), sub, by)

RECURSIVE split(_, _)
split(s, separator) ==
    LET i == indexOfFrom(s, separator, 1)
    IN IF i = 0 THEN <<s>>
       ELSE <<SubSeq(s, 1, i - 1)>> \o split(SubSeq(s, i + Len(separator), Len(s)), separator)

RECURSIVE join(_, _)
join(parts, separator) ==
    IF parts = <<>> THEN <<>>
    ELSE IF Len(parts) = 1 THEN parts[1]
    ELSE parts[1] \o separator \o join(Tail(parts), separator)

RECURSIVE trimStart(_)
trimStart(s) == IF s # <<>> /\ Head(s) \in WhiteSpace THEN trimStart(Tail(s)) ELSE s
RECURSIVE trimEnd(_)
trimEnd(s) ==
    IF s # <<>> /\ s[Len(s)] \in WhiteSpace THEN trimEnd(SubSeq(s, 1, Len(s) - 1)) ELSE s
trim(s) == trimEnd(trimStart(s))

toLowerCase(s) ==
    [k \in 1..Len(s) |->
        IF \E u \in 1..Len(UpperCase) : UpperCase[u] = s[k]
        THEN LowerCase[CHOOSE u \in 1..Len(UpperCase) : UpperCase[u] = s[k]]
        ELSE s[k]]

\* String.prototype.slice(n) for n >= 0.
slice(s, n) == SubSeq(s, n + 1, Len(s))

\* Array.prototype.last (Obsidian) / the element pop() returns.
last(parts) == parts[Len(parts)]

\* ------------------------------------------------------- processMarkdown
\* ---- configuration and inventories
\* config.convertedImageType and config.docusaurusAssetSubfolderName.
convertedImageType == <<"w", "e", "b", "p">>
docusaurusAssetSubfolderName == <<"a", "s", "s", "e", "t", "s">>

\* The document being converted (processedFileName).
ProcessedFileName == <<"d", "o", "c", "s", "/", "a", ".", "m", "d">>

\* fileInfo and allSourceAssetsInfo, as getSourceFileInfo builds them: the
\* file's base name and its path relative to the vault; for a document,
\* getTargetPath adds the path relative to the website directory.
fileInfo ==
    <<[fileName |-> <<"N", "o", "t", "e", " ", "A", ".", "m", "d">>,
       pathSourceRelative |-> <<"d", "o", "c", "s", "/", "0", "1", "-", "g", "/", "N", "o", "t", "e", " ", "A", ".", "m", "d">>,
       pathTargetRelative |-> <<".", ".", "/", "w", "e", "b", "s", "i", "t", "e", "/", "d", "o", "c", "s", "/", "0", "1", "-", "g", "/", "N", "o", "t", "e", " ", "A", ".", "m", "d">>]>>
allSourceAssetsInfo ==
    <<[fileName |-> <<"d", "i", "a", "g", "r", "a", "m", ".", "p", "n", "g">>,
       pathSourceRelative |-> <<"a", "s", "s", "e", "t", "s", "/", "d", "i", "a", "g", "r", "a", "m", ".", "p", "n", "g">>],
      [fileName |-> <<"m", "a", "n", "u", "a", "l", ".", "p", "d", "f">>,
       pathSourceRelative |-> <<"a", "s", "s", "e", "t", "s", "/", "m", "a", "n", "u", "a", "l", ".", "p", "d", "f">>],
      [fileName |-> <<"N", "o", "t", "e", " ", "A">>,
       pathSourceRelative |-> <<"a", "s", "s", "e", "t", "s", "/", "N", "o", "t", "e", " ", "A">>]>>

\* ---- FileProcessor
getPathOfFile(sourceFileInfoList, filename) ==
    LET m == FindIndex(sourceFileInfoList, LAMBDA f : f.fileName = filename)
    IN IF m = 0 THEN Undefined ELSE sourceFileInfoList[m].pathSourceRelative

getPathOfImage(assetInfoList, filename) ==
    LET m == FindIndex(assetInfoList, LAMBDA f : f.fileName = filename)
    IN IF m = 0 THEN Undefined ELSE assetInfoList[m].pathSourceRelative

\* ---- convertObsidianLinks
NoMatch == [found |-> FALSE]

\* line.match(/(?:!)?\[\[(.*?)\]\]/): the leftmost [[ (with the ! before
\* it, if there is one) that has a ]] after it, up to the first such ]].
WikiPattern(line) ==
    LET withMark(i) == /\ startsWithAt(line, <<"!", "[", "[">>, i)
                       /\ indexOfFrom(line, <<"]", "]">>, i + 3) # 0
        without(i) == /\ startsWithAt(line, <<"[", "[">>, i)
                      /\ indexOfFrom(line, <<"]", "]">>, i + 2) # 0
        starts == {i \in 1..Len(line) : withMark(i) \/ without(i)}
    IN IF starts = {}
       THEN NoMatch
       ELSE LET i == Least(starts)
                inner == IF withMark(i) THEN i + 3 ELSE i + 2
                close == indexOfFrom(line, <<"]", "]">>, inner)
            IN [found |-> TRUE,
                all |-> SubSeq(line, i, close + 1),
                group |-> SubSeq(line, inner, close - 1)]

\* convertObsidianLinks with split[0] for the title instead of split.last().
convertObsidianLinksFirstPart(line, sourceFileInfoList, assetInfoList) ==
    LET match == WikiPattern(line)
    IN IF ~match.found
       THEN line
       ELSE LET parts == split(match.group, <<"|">>)
                filenameWithExtension ==
                    IF endsWith(parts[1], <<".", "m", "d">>) THEN parts[1] ELSE parts[1] \o <<".", "m", "d">>
                title == parts[1]
                newPath == getPathOfFile(sourceFileInfoList, filenameWithExtension)
                imagePath == getPathOfImage(assetInfoList, match.group)
            IN IF newPath # Undefined
               THEN replace(line, match.all, <<"[">> \o title \o <<"]", "(">> \o newPath \o <<")">>)
               ELSE IF imagePath # Undefined
               THEN replace(line, match.all, <<"!", "[", "]", "(">> \o imagePath \o <<")">>)
               ELSE line

convertObsidianLinks(line, sourceFileInfoList, assetInfoList) ==
    LET match == WikiPattern(line)
    IN IF ~match.found
       THEN line
       ELSE LET parts == split(match.group, <<"|">>)
                filenameWithExtension ==
                    IF endsWith(parts[1], <<".", "m", "d">>) THEN parts[1] ELSE parts[1] \o <<".", "m", "d">>
                title == last(parts)
                newPath == getPathOfFile(sourceFileInfoList, filenameWithExtension)
                imagePath == getPathOfImage(assetInfoList, match.group)
            IN IF newPath # Undefined
               THEN replace(line, match.all, <<"[">> \o title \o <<"]", "(">> \o newPath \o <<")">>)
               ELSE IF imagePath # Undefined
               THEN replace(line, match.all, <<"!", "[", "]", "(">> \o imagePath \o <<")">>)
               ELSE line

\* ---- checkForAssets
ImageExtensions ==
    {<<"j", "p", "g">>, <<"p", "n", "g">>, <<"w", "e", "b", "p">>, <<"j", "p", "e", "g">>, <<"b", "m", "p">>, <<"g", "i", "f">>, <<"s", "v", "g">>, <<"e", "x", "c", "a", "l", "i", "d", "r", "a", "w">>}
Standard == <<"s", "t", "a", "n", "d", "a", "r", "d">>

\* What a template literal makes of a value.
Text(x) == IF x = Undefined THEN <<"u", "n", "d", "e", "f", "i", "n", "e", "d">> ELSE x

\* The position after the digits that start at i (i when none does).
RECURSIVE digitsEnd(_, _)
digitsEnd(s, i) == IF i <= Len(s) /\ s[i] \in Digits THEN digitsEnd(s, i + 1) ELSE i

\* /!\[(?:\|(?<size>\d+(x\d+)?))?\]\((?<path>.*?)\)/ tried at position i.
EmbedAt(line, i) ==
    IF ~startsWithAt(line, <<"!", "[">>, i)
    THEN NoMatch
    ELSE LET p == i + 2
             d1 == digitsEnd(line, p + 1)
             d2 == IF startsWithAt(line, <<"x">>, d1) /\ digitsEnd(line, d1 + 1) > d1 + 1
                   THEN digitsEnd(line, d1 + 1)
                   ELSE d1
             sized == /\ startsWithAt(line, <<"|">>, p)
                      /\ d1 > p + 1
                      /\ startsWithAt(line, <<"]", "(">>, d2)
             plain == startsWithAt(line, <<"]", "(">>, p)
             q == IF sized THEN d2 + 2 ELSE p + 2
             close == indexOfFrom(line, <<")">>, q)
         IN IF (sized \/ plain) /\ close # 0
            THEN [found |-> TRUE,
                  size |-> IF sized THEN SubSeq(line, p + 1, d2 - 1) ELSE Undefined,
                  path |-> SubSeq(line, q, close - 1)]
            ELSE NoMatch

EmbedPattern(line) ==
    LET starts == {i \in 1..Len(line) : EmbedAt(line, i).found}
    IN IF starts = {} THEN NoMatch ELSE EmbedAt(line, Least(starts))

\* The Size object addToAssetJson returns gets newName pushed by
\* processImage (lines 768-772).
pushNewName(registry, fileName, size, newName) ==
    LET m == FindIndex(registry, LAMBDA a : a.fileName = fileName)
        z == FindIndex(registry[m].sizes, LAMBDA x : x.size = size)
        names == registry[m].sizes[z].newName
    IN IF newName = <<>> \/ \E k \in 1..Len(names) : names[k] = newName
       THEN registry
       ELSE [registry EXCEPT ![m].sizes[z].newName = Append(@, newName)]

\* processImage: the line it builds and the registry with the new name.
processImage(fileName, fileExtension, size, registry) ==
    LET sizeSuffix == IF size = Standard THEN <<>> ELSE <<"_">> \o size
        stem == <<"/", "a", "s", "s", "e", "t", "s", "/">> \o fileName \o sizeSuffix
        newPath ==
            IF fileExtension \in {<<"g", "i", "f">>, <<"s", "v", "g">>}
            THEN stem \o <<".">> \o fileExtension
            ELSE IF fileExtension = <<"e", "x", "c", "a", "l", "i", "d", "r", "a", "w">>
            THEN stem \o <<".", "e", "x", "c", "a", "l", "i", "d", "r", "a", "w", ".", "l", "i", "g", "h", "t", ".", "s", "v", "g", "#", "l", "i", "g", "h", "t">>
            ELSE stem \o <<".">> \o convertedImageType
        embed(path) == <<"!", "[">> \o fileName \o <<"]", "(">> \o path \o <<")">>
        darkPath == replace(newPath, <<".", "l", "i", "g", "h", "t", ".", "s", "v", "g", "#", "l", "i", "g", "h", "t">>, <<".", "d", "a", "r", "k", ".", "s", "v", "g", "#", "d", "a", "r", "k">>)
        newName == split(last(split(newPath, <<"/">>)), <<"#">>)[1]
    IN [line |-> IF fileExtension = <<"e", "x", "c", "a", "l", "i", "d", "r", "a", "w">>
                 THEN embed(newPath) \o <<"\n">> \o embed(darkPath)
                 ELSE embed(newPath),
        assetJson |-> pushNewName(registry, fileName, size, newName)]

processAsset(fileName, fileExtension) ==
    <<"[", "D", "o", "w", "n", "l", "o", "a", "d", " ">> \o fileName \o <<".">> \o Text(fileExtension) \o <<"]", "(">>
        \o docusaurusAssetSubfolderName \o <<"/">> \o fileName \o <<".">> \o Text(fileExtension)
        \o <<")">>

\* Lines 690-709 and 720-736: the attachment named by nameWithExtension is
\* registered and the line is replaced by its embed or download link.
RegisterAndRewrite(nameWithExtension, path, size, processedFileName, registry) ==
    LET parts == split(nameWithExtension, <<".">>)
        fileName == replaceAll(replaceAll(parts[1], <<" ">>, <<"_">>), <<"%", "2", "0">>, <<"_">>)
        fileExtension == IF Len(parts) >= 2 THEN parts[2] ELSE Undefined
    IN IF addToAssetJsonThrows(registry, fileName, path)
       THEN [threw |-> TRUE, line |-> <<>>, assetJson |-> registry]
       ELSE LET added == addToAssetJson(registry, fileName, size, processedFileName)
            IN IF fileExtension \in ImageExtensions
               THEN LET image == processImage(fileName, fileExtension, size, added)
                    IN [threw |-> FALSE, line |-> image.line, assetJson |-> image.assetJson]
               ELSE [threw |-> FALSE, line |-> processAsset(fileName, fileExtension),
                     assetJson |-> added]

\* Lines 683-710: the embed with a path, found by the first pattern.
checkForPathEmbed(line, match, processedFileName, registry) ==
    IF ~match.found
    THEN [threw |-> FALSE, line |-> line, assetJson |-> registry]
    ELSE RegisterAndRewrite(
             last(split(match.path, <<"/">>)), match.path,
             IF match.size = Undefined \/ trim(match.size) = <<>>
             THEN Standard ELSE match.size,
             processedFileName, registry)

\* Lines 716-737: the wiki form, found by the second pattern on the line
\* the first part left; its path comes from the attachment inventory.
checkForWikiEmbed(first, match2, processedFileName, assetInfoList) ==
    IF first.threw \/ ~match2.found
    THEN first
    ELSE RegisterAndRewrite(
             match2.group, getPathOfImage(assetInfoList, match2.group), Standard,
             processedFileName, first.assetJson)

checkForWikiEmbedIn(first, processedFileName, assetInfoList) ==
    checkForWikiEmbed(first, WikiPattern(first.line), processedFileName, assetInfoList)

\* checkForAssets: the line it returns and the registry it leaves, or its
\* throw.
checkForAssets(line, processedFileName, registry, assetInfoList) ==
    checkForWikiEmbedIn(checkForPathEmbed(line, EmbedPattern(line), processedFileName, registry),
                        processedFileName, assetInfoList)

\* ---- checkForLinks
\* /\[([^\]]+)\]\(([^)]+)\)/ tried at position i: a [, one or more
\* characters up to the first ], then ( and one or more characters up to
\* the first ).
LinkAt(line, i) ==
    IF ~startsWithAt(line, <<"[">>, i)
    THEN NoMatch
    ELSE LET j == indexOfFrom(line, <<"]">>, i + 1)
             k == indexOfFrom(line, <<")">>, j + 2)
         IN IF j > i + 1 /\ startsWithAt(line, <<"(">>, j + 1) /\ k > j + 2
            THEN [found |-> TRUE, url |-> SubSeq(line, j + 2, k - 1)]
            ELSE NoMatch

LinkPattern(line) ==
    LET starts == {i \in 1..Len(line) : LinkAt(line, i).found}
    IN IF starts = {} THEN NoMatch ELSE LinkAt(line, Least(starts))

isBlogFolder(mainFolder) == mainFolder = <<"b", "l", "o", "g">> \/ endsWith(mainFolder, <<"_", "_", "b", "l", "o", "g">>)
removeBlogSuffix(mainFolder) == replace(mainFolder, <<"_", "_", "b", "l", "o", "g">>, <<>>)

\* The characters of the class [\.\-\)\s%20].
AfterNumber == {".", "-", ")", "%", "2", "0"} \cup WhiteSpace
RECURSIVE afterNumberEnd(_, _)
afterNumberEnd(s, i) ==
    IF i <= Len(s) /\ s[i] \in AfterNumber THEN afterNumberEnd(s, i + 1) ELSE i

\* str.replace(/^\d+[\.\-\)\s%20]*\s*/, "").trim()
removeNumberPrefix(str) ==
    IF str # <<>> /\ str[1] \in Digits
    THEN trim(SubSeq(str, afterNumberEnd(str, digitsEnd(str, 1)), Len(str)))
    ELSE trim(str)

processUrlParts(urlParts, isBlog) ==
    LET n == Len(urlParts)
        lastParts == split(urlParts[n], <<"#">>)
        file == lastParts[1]
        anchor == IF Len(lastParts) >= 2 THEN lastParts[2] ELSE <<>>
        parentFolder == urlParts[n - 1]
        flattened ==
            IF endsWith(parentFolder, <<"+">>)
            THEN [SubSeq(urlParts, 1, n - 1) EXCEPT ![n - 1] =
                     IF isBlog
                     THEN join(split(replace(parentFolder, <<"+">>, <<>>), <<"-">>), <<"/">>)
                     ELSE removeNumberPrefix(replace(parentFolder, <<"+">>, <<>>))]
            ELSE IF endsWith(file, <<".", "m", "d">>)
            THEN [urlParts EXCEPT ![n] = replace(file, <<".", "m", "d">>, <<>>)]
            ELSE urlParts
        m == Len(flattened)
        slugged == IF isBlog
                   THEN [flattened EXCEPT ![m] = join(split(@, <<"-">>), <<"/">>)]
                   ELSE SubSeq([k \in 1..m |-> removeNumberPrefix(flattened[k])], 1, m)
    IN IF anchor # <<>>
       THEN [slugged EXCEPT ![m] =
                @ \o <<"#">> \o toLowerCase(join(split(anchor, <<"%", "2", "0">>), <<"-">>))]
       ELSE slugged

checkForLinks(line) ==
    LET match == LinkPattern(line)
    IN IF ~match.found
       THEN line
       ELSE IF includes(match.url, <<"h", "t", "t", "p">>)
       THEN line
       ELSE LET urlParts == split(match.url, <<"/">>)
                isBlog == isBlogFolder(urlParts[1])
                renamed == IF isBlog
                           THEN [urlParts EXCEPT ![1] = removeBlogSuffix(@)]
                           ELSE urlParts
            IN IF Len(urlParts) <= 1
               THEN line
               ELSE replace(line, match.url,
                            <<"/">> \o join(processUrlParts(renamed, isBlog), <<"/">>))

\* ---- convertAdmonition
\* The last position where c occurs in s; 0 for none.
lastIndexOf(s, c) ==
    LET at == {i \in 1..Len(s) : s[i] = c}
    IN IF at = {} THEN 0 ELSE CHOOSE i \in at : \A j \in at : j <= i

\* The position after the white space that starts at i.
RECURSIVE spaceEnd(_, _)
spaceEnd(s, i) == IF i <= Len(s) /\ s[i] \in WhiteSpace THEN spaceEnd(s, i + 1) ELSE i

\* line.match(/^>\s*\[!(?<type>.*)](?<title>.*)?/): the type runs to the
\* last ] of the line.
parseAdmonitionData(line) ==
    LET p == spaceEnd(line, 2)
        close == lastIndexOf(line, "]")
    IN IF startsWithAt(line, <<">">>, 1) /\ startsWithAt(line, <<"[", "!">>, p) /\ close >= p + 2
       THEN [type |-> SubSeq(line, p + 2, close - 1),
             title |-> trim(SubSeq(line, close + 1, Len(line))),
             whitespaces |-> indexOfFrom(line, <<"[">>, 1) - indexOfFrom(line, <<">">>, 1)]
       ELSE NoAdmonition

\* The three characters between "> " and " " in the literal of line 525,
\* named in ASCII.
Attribution == <<"(a-circumflex)", "(euro)", "(right-quote)">>

\* convertAdmonition that adds no line break to the lines it builds.
convertAdmonitionBare(line, isInAdmonition, isInQuote, previous) ==
    LET parsed == IF ~isInAdmonition /\ ~isInQuote THEN parseAdmonitionData(line) ELSE previous
    IN IF isInAdmonition
       THEN IF trim(line) = <<>>
            THEN [line |-> <<":", ":", ":">>, inAdmonition |-> FALSE, inQuote |-> isInQuote,
                  admonition |-> parsed]
            ELSE [line |-> slice(line, parsed.whitespaces), inAdmonition |-> TRUE,
                  inQuote |-> isInQuote, admonition |-> parsed]
       ELSE IF isInQuote
       THEN IF trim(line) = <<>>
            THEN [line |-> <<">", "\n", ">", " ">> \o Attribution \o <<" ">> \o parsed.title,
                  inAdmonition |-> FALSE, inQuote |-> FALSE, admonition |-> parsed]
            ELSE [line |-> line, inAdmonition |-> FALSE, inQuote |-> TRUE,
                  admonition |-> parsed]
       ELSE IF parsed.type # <<>>
       THEN IF parsed.type = <<"q", "u", "o", "t", "e">>
            THEN [line |-> <<>>, inAdmonition |-> FALSE, inQuote |-> TRUE,
                  admonition |-> parsed]
            ELSE [line |-> <<":", ":", ":">> \o parsed.type
                           \o (IF parsed.title # <<>> THEN <<" ">> \o parsed.title ELSE <<>>),
                  inAdmonition |-> TRUE, inQuote |-> FALSE, admonition |-> parsed]
       ELSE [line |-> line, inAdmonition |-> FALSE, inQuote |-> FALSE, admonition |-> parsed]

\* convertAdmonition that parses every line, open block or not, and opens
\* the block of a start marker before it looks at the open one.
convertAdmonitionEveryLine(line, isInAdmonition, isInQuote, previous) ==
    LET parsed == parseAdmonitionData(line)
    IN IF parsed.type # <<>>
       THEN IF parsed.type = <<"q", "u", "o", "t", "e">>
            THEN [line |-> <<>>, inAdmonition |-> isInAdmonition, inQuote |-> TRUE,
                  admonition |-> parsed]
            ELSE [line |-> <<":", ":", ":">> \o parsed.type
                           \o (IF parsed.title # <<>> THEN <<" ">> \o parsed.title ELSE <<>>)
                           \o <<"\n">>,
                  inAdmonition |-> TRUE, inQuote |-> isInQuote, admonition |-> parsed]
       ELSE IF isInAdmonition
       THEN IF trim(line) = <<>>
            THEN [line |-> <<":", ":", ":", "\n">>, inAdmonition |-> FALSE, inQuote |-> isInQuote,
                  admonition |-> previous]
            ELSE [line |-> slice(line, previous.whitespaces), inAdmonition |-> TRUE,
                  inQuote |-> isInQuote, admonition |-> previous]
       ELSE IF isInQuote
       THEN IF trim(line) = <<>>
            THEN [line |-> <<">", "\n", ">", " ">> \o Attribution \o <<" ">> \o previous.title \o <<"\n">>,
                  inAdmonition |-> FALSE, inQuote |-> FALSE, admonition |-> previous]
            ELSE [line |-> line, inAdmonition |-> FALSE, inQuote |-> TRUE,
                  admonition |-> previous]
       ELSE [line |-> line, inAdmonition |-> FALSE, inQuote |-> FALSE, admonition |-> parsed]

convertAdmonition(line, isInAdmonition, isInQuote, previous) ==
    LET parsed == IF ~isInAdmonition /\ ~isInQuote THEN parseAdmonitionData(line) ELSE previous
    IN IF isInAdmonition
       THEN IF trim(line) = <<>>
            THEN [line |-> <<":", ":", ":", "\n">>, inAdmonition |-> FALSE, inQuote |-> isInQuote,
                  admonition |-> parsed]
            ELSE [line |-> slice(line, parsed.whitespaces), inAdmonition |-> TRUE,
                  inQuote |-> isInQuote, admonition |-> parsed]
       ELSE IF isInQuote
       THEN IF trim(line) = <<>>
            THEN [line |-> <<">", "\n", ">", " ">> \o Attribution \o <<" ">> \o parsed.title \o <<"\n">>,
                  inAdmonition |-> FALSE, inQuote |-> FALSE, admonition |-> parsed]
            ELSE [line |-> line, inAdmonition |-> FALSE, inQuote |-> TRUE,
                  admonition |-> parsed]
       ELSE IF parsed.type # <<>>
       THEN IF parsed.type = <<"q", "u", "o", "t", "e">>
            THEN [line |-> <<>>, inAdmonition |-> FALSE, inQuote |-> TRUE,
                  admonition |-> parsed]
            ELSE [line |-> <<":", ":", ":">> \o parsed.type
                           \o (IF parsed.title # <<>> THEN <<" ">> \o parsed.title ELSE <<>>)
                           \o <<"\n">>,
                  inAdmonition |-> TRUE, inQuote |-> FALSE, admonition |-> parsed]
       ELSE [line |-> line, inAdmonition |-> FALSE, inQuote |-> FALSE, admonition |-> parsed]

\* ---- processMarkdown
\* The lines a document is made of.
InputLines ==
    {<<"[", "[", "N", "o", "t", "e", " ", "A", "|", "S", "e", "e", " ", "T", "h", "i", "s", "]", "]">>,
     <<"[", "[", "N", "o", "t", "e", " ", "A", "]", "]">>,
     <<"!", "[", "[", "d", "i", "a", "g", "r", "a", "m", ".", "p", "n", "g", "]", "]">>,
     <<"[", "[", "g", "h", "o", "s", "t", "]", "]">>,
     <<"!", "[", "[", "g", "h", "o", "s", "t", ".", "p", "n", "g", "]", "]">>,
     <<"!", "[", "|", "2", "0", "0", "]", "(", "a", "s", "s", "e", "t", "s", "/", "d", "i", "a", "g", "r", "a", "m", ".", "p", "n", "g", ")">>,
     <<"!", "[", "]", "(", "a", "s", "s", "e", "t", "s", "/", "p", "i", "c", " ", "1", ".", "g", "i", "f", ")">>,
     <<"[", "x", "]", "(", "0", "2", "-", "g", "u", "i", "d", "e", "/", "0", "3", "-", "i", "n", "t", "r", "o", ".", "m", "d", ")">>,
     <<"[", "x", "]", "(", "0", "3", "-", "i", "n", "t", "r", "o", ".", "m", "d", ")">>,
     <<">", " ", "[", "!", "w", "a", "r", "n", "i", "n", "g", "]", " ", "C", "a", "r", "e", "f", "u", "l">>,
     <<">", " ", "b", "o", "d", "y", " ", "t", "e", "x", "t">>,
     <<>>,
     <<"p", "l", "a", "i", "n", " ", "t", "e", "x", "t">>,
     <<"[", "x", "]", "(", "h", "t", "t", "p", ":", "/", "/", "e", ".", "o", "r", "g", "/", "a", ".", "m", "d", ")">>,
     <<"!", "[", "[", "m", "a", "n", "u", "a", "l", ".", "p", "d", "f", "]", "]">>,
     <<">", " ", "[", "!", "q", "u", "o", "t", "e", "]", " ", "A", "u", "t", "h", "o", "r">>,
     <<"[", "p", "]", "(", "p", "o", "s", "t", "s", "_", "_", "b", "l", "o", "g", "/", "2", "0", "2", "3", "-", "0", "1", "-", "m", "y", "+", "/", "0", "1", "-", "p", "a", "r", "t", ".", "m", "d", "#", "M", "y", "%", "2", "0", "P", "a", "r", "t", ")">>,
     <<"[", "y", "]", "(", "0", "2", "-", "g", "u", "i", "d", "e", "+", "/", "0", "3", "-", "i", "n", "t", "r", "o", ".", "m", "d", ")">>,
     <<"[", "z", "]", "(", "0", "2", "-", "2", "0", "2", "4", "-", "n", "o", "t", "e", "s", "/", "0", "3", "-", "i", "n", "t", "r", "o", ".", "m", "d", ")">>}

\* The lines of callout and quote blocks among them.
BlockLines ==
    {<<">", " ", "[", "!", "w", "a", "r", "n", "i", "n", "g", "]", " ", "C", "a", "r", "e", "f", "u", "l">>,
     <<">", " ", "b", "o", "d", "y", " ", "t", "e", "x", "t">>,
     <<>>,
     <<"p", "l", "a", "i", "n", " ", "t", "e", "x", "t">>,
     <<">", " ", "[", "!", "q", "u", "o", "t", "e", "]", " ", "A", "u", "t", "h", "o", "r">>}

\* A document is up to MaxLines lines of blocks, or up to MaxMixedLines
\* lines of any kind.
MaxLines == 3
MaxMixedLines == 2
Documents ==
    UNION {[1..n -> BlockLines] : n \in 1..MaxLines}
    \cup UNION {[1..n -> InputLines] : n \in 1..MaxMixedLines}

MarkdownFrame == UNCHANGED <<envVars, handlerVars, layout, scanVars, allFilesInfoJson, assetInfoJson,
                             ppc, allSourceFilesInfo, targetJson, filesToDelete, pi, tasks,
                             results, pres, startFiles, obsVars>>

\* processMarkdown is called with the text of a document: readline will
\* deliver its lines (lines 382-399).
CallProcessMarkdown ==
    /\ mdpc = "idle"
    /\ sourceContent' \in Documents
    /\ sourceLines' = sourceContent'
    /\ mdpc' = "lines"
    /\ transformedContent' = <<>>
    /\ inAdmonition' = FALSE
    /\ inQuote' = FALSE
    /\ admonition' = NoAdmonition
    /\ lastLine' = NoLine
    /\ UNCHANGED assetJson
    /\ MarkdownFrame

\* The pass of a line through the rewrites of lines 407-410, each taking
\* the line the one before it returned: what lastLine records, and for a
\* line that passed all four the line built and the loop's new state.
AfterAdmonition(line, linked, assets, urls, converted, isInAdmonition, isInQuote) ==
    [pass |-> "line", line |-> line, links |-> linked, assets |-> assets.line, urls |-> urls,
     out |-> converted.line, wasInAdmonition |-> isInAdmonition, wasInQuote |-> isInQuote,
     converted |-> converted, assetJson |-> assets.assetJson]

AfterLinks(line, linked, assets, urls, isInAdmonition, isInQuote, previous) ==
    AfterAdmonition(line, linked, assets, urls,
                    convertAdmonition(urls, isInAdmonition, isInQuote, previous),
                    isInAdmonition, isInQuote)

AfterAssets(line, linked, assets, isInAdmonition, isInQuote, previous) ==
    IF assets.threw
    THEN [pass |-> "threw", line |-> line, links |-> linked]
    ELSE AfterLinks(line, linked, assets, checkForLinks(assets.line),
                    isInAdmonition, isInQuote, previous)

AfterObsidianLinks(line, linked, registry, isInAdmonition, isInQuote, previous) ==
    AfterAssets(line, linked,
                checkForAssets(linked, ProcessedFileName, registry, allSourceAssetsInfo),
                isInAdmonition, isInQuote, previous)

RewriteLine(line, registry, isInAdmonition, isInQuote, previous) ==
    AfterObsidianLinks(line, convertObsidianLinks(line, fileInfo, allSourceAssetsInfo),
                       registry, isInAdmonition, isInQuote, previous)

\* Line 413, or the throw of checkForAssets that rejects processMarkdown.
AppendLine(rewritten) ==
    IF rewritten.pass = "threw"
    THEN /\ mdpc' = "rejected"
         /\ lastLine' = rewritten
         /\ UNCHANGED <<transformedContent, inAdmonition, inQuote, admonition, assetJson>>
    ELSE /\ mdpc' = mdpc
         /\ lastLine' = [f \in DOMAIN rewritten \ {"converted", "assetJson"} |-> rewritten[f]]
         /\ transformedContent' = transformedContent \o rewritten.out \o <<"\n">>
         /\ inAdmonition' = rewritten.converted.inAdmonition
         /\ inQuote' = rewritten.converted.inQuote
         /\ admonition' = rewritten.converted.admonition
         /\ assetJson' = rewritten.assetJson

\* One turn of the loop of lines 405-414.
ProcessLine ==
    /\ mdpc = "lines"
    /\ sourceLines # <<>>
    /\ AppendLine(RewriteLine(Head(sourceLines), assetJson, inAdmonition, inQuote, admonition))
    /\ sourceLines' = Tail(sourceLines)
    /\ UNCHANGED sourceContent
    /\ MarkdownFrame

\* Line 417: every line is handled, the text is returned.
ReturnContent ==
    /\ mdpc = "lines"
    /\ sourceLines = <<>>
    /\ mdpc' = "returned"
    /\ UNCHANGED <<sourceContent, sourceLines, transformedContent, inAdmonition, inQuote,
                   admonition, lastLine, assetJson>>
    /\ MarkdownFrame

NextMarkdown == CallProcessMarkdown \/ ProcessLine \/ ReturnContent

SpecMarkdown == InitRegistry /\ [][NextMarkdown]_vars

\* ---------------------------------------------- claims on deletion errors
\* The ledger a run works on once checkFilesExistence has gone over it, and
\* the indices of its entries that getFilesToDelete selects.
StartLedger == checkFilesExistence(readTargetJson(startFiles.ledger), startSite)
SelectedAtStart == {k \in 1..Len(StartLedger) : ToDelete(allSourceFilesInfo, StartLedger[k])}

\* deleteFiles has returned.
DeletionsOver == (ppc = "deleteFiles" /\ pi > Len(filesToDelete)) \/ ppc = "removed"

\* The entries deleteFiles has to keep: those not selected, and those
\* selected whose output is still there because its unlink failed.
KeptIndices ==
    SelectSeq([k \in 1..Len(StartLedger) |-> k],
              LAMBDA k : k \notin SelectedAtStart
                         \/ site[StartLedger[k].pathTargetAbsolute] # Absent)

\* C11: when deleteFiles returns, the ledger has lost the entries of the
\* selected outputs that are gone (unlinked, or not found) and still holds,
\* unchanged, the entry of every selected output whose unlink failed and
\* every entry that was not selected.
C11_FailedDeletionKeepsItsEntry ==
    DeletionsOver => targetJson = [k \in 1..Len(KeptIndices) |-> StartLedger[KeptIndices[k]]]

\* deleteFiles of part_001 on one vault layout: the same statement.
DeleteFilesKeepsFailedEntries ==
    (DeletionsOver /\ layout = "plain") =>
        targetJson = [k \in 1..Len(KeptIndices) |-> StartLedger[KeptIndices[k]]]

\* ------------------------------------------- claims on the asset registry
\* A registry as recordUsage builds it: every asset has its sizes array.
BuiltByRecordUsage(registry) == \A i \in 1..Len(registry) : "sizes" \in DOMAIN registry[i]

\* The positions of the size variants of an attachment and size tag, and
\* the documents such a variant lists.
VariantsOf(registry, fileName, size) ==
    {x \in (1..Len(registry)) \X (1..2 * Cardinality(SizeTags)) :
        /\ registry[x[1]].fileName = fileName
        /\ x[2] <= Len(registry[x[1]].sizes)
        /\ registry[x[1]].sizes[x[2]].size = size}
DocumentsOf(registry, fileName, size) ==
    {d \in Docs : \E x \in VariantsOf(registry, fileName, size) :
        \E k \in 1..Len(registry[x[1]].sizes[x[2]].inDocuments) :
            registry[x[1]].sizes[x[2]].inDocuments[k] = d}
RecordsOf(registry, fileName) == {i \in 1..Len(registry) : registry[i].fileName = fileName}
PathKeys(toDelete) == {toDelete[k].pathKey : k \in 1..Len(toDelete)}

Registered == lastStep.pass = "recordUsage" /\ ~lastStep.threw
ReleaseCalled == lastStep.pass = "release" /\ BuiltByRecordUsage(lastStep.before)

\* C12: an attachment and size tag registered from several documents has
\* one AssetRecord with one SizeVariant that lists each of them; releasing
\* a delete-set leaves every SizeVariant with the documents that were not
\* deleted, and removes the SizeVariant all of whose documents were deleted
\* (and the AssetRecord left without a variant).
C12_SharedAttachmentReleasedPerDocument ==
    /\ (Registered /\ BuiltByRecordUsage(assetJson)) =>
          /\ Cardinality(RecordsOf(assetJson, lastStep.fileName)) = 1
          /\ Cardinality(VariantsOf(assetJson, lastStep.fileName, lastStep.size)) = 1
          /\ DocumentsOf(assetJson, lastStep.fileName, lastStep.size)
                = DocumentsOf(lastStep.before, lastStep.fileName, lastStep.size)
                  \cup {lastStep.doc}
    /\ ReleaseCalled =>
          /\ ~lastStep.threw
          /\ \A fileName \in AssetNames, size \in SizeTags :
                LET left == DocumentsOf(lastStep.before, fileName, size)
                                \ PathKeys(lastStep.toDelete)
                IN /\ DocumentsOf(assetJson, fileName, size) = left
                   /\ left = {} => VariantsOf(assetJson, fileName, size) = {}
          /\ \A fileName \in AssetNames :
                (\A size \in SizeTags : DocumentsOf(assetJson, fileName, size) = {})
                    => RecordsOf(assetJson, fileName) = {}

\* C13: registering the same attachment, size tag and document a second
\* time leaves the registry exactly as the first registration left it.
C13_RecordUsageIdempotent ==
    Registered =>
        addToAssetJson(assetJson, lastStep.fileName, lastStep.size, lastStep.doc) = assetJson

\* A registration that repeated an earlier one has just been made.
C13_Witness ==
    /\ Registered
    /\ lastStep.before = assetJson
    /\ lastStep.doc \in DocumentsOf(assetJson, lastStep.fileName, lastStep.size)
    /\ Cardinality(DocumentsOf(assetJson, lastStep.fileName, lastStep.size)) = 2

\* C14: after reference release for any delete-set the registry has no
\* SizeVariant without documents and no AssetRecord without SizeVariant, and
\* every SizeVariant that still has a document is still in the registry.
C14_ReleaseLeavesNoEmptyAndDropsNoLive ==
    ReleaseCalled =>
        /\ ~lastStep.threw
        /\ \A i \in 1..Len(assetJson) :
              /\ assetJson[i].sizes # <<>>
              /\ \A j \in 1..Len(assetJson[i].sizes) : assetJson[i].sizes[j].inDocuments # <<>>
        /\ \A fileName \in AssetNames, size \in SizeTags :
              DocumentsOf(lastStep.before, fileName, size) \ PathKeys(lastStep.toDelete) # {}
                  => VariantsOf(assetJson, fileName, size) # {}

\* processAssetDeletion on a registry in the shape it reads: what is left
\* is every inclusion without the deleted documents, without the inclusions
\* that lost their last document and the assets that lost their last
\* inclusion.
ExpectedAfterRelease(registry, deleted) ==
    LET live(inclusions) ==
            SelectSeq([j \in 1..Len(inclusions) |->
                          [files |-> SelectSeq(inclusions[j].files, LAMBDA f : f \notin deleted)]],
                      LAMBDA x : x.files # <<>>)
    IN SelectSeq([i \in 1..Len(registry) |->
                     [fileName |-> registry[i].fileName,
                      AssetTypeInDocument |-> live(registry[i].AssetTypeInDocument)]],
                 LAMBDA a : a.AssetTypeInDocument # <<>>)
ReleaseOnInclusions ==
    (/\ lastStep.pass = "release"
     /\ \A i \in 1..Len(lastStep.before) : HasAssetTypeInDocument(lastStep.before[i]))
        => /\ ~lastStep.threw
           /\ assetJson = ExpectedAfterRelease(lastStep.before, PathKeys(lastStep.toDelete))
ReleaseOnInclusionsWitness ==
    /\ lastStep.pass = "release"
    /\ lastStep.before # <<>>
    /\ \A i \in 1..Len(lastStep.before) : HasAssetTypeInDocument(lastStep.before[i])
    /\ Len(assetJson) < Len(lastStep.before)

\* ------------------------------------------ claims on the rewrite of lines
\* processMarkdown has handled a line: it appended it or was rejected by it.
LineHandled == lastLine.pass # "none"

\* The line still carries a wiki-style link or embed when checkForAssets
\* receives it, and the attachment inventory has no file of that name: the
\* registration of line 730 is asked with no source path.
RegistersWithoutPath(line) ==
    /\ WikiPattern(line).found
    /\ getPathOfImage(allSourceAssetsInfo, WikiPattern(line).group) = Undefined

\* The name of the line's wiki-style link or embed is neither a known
\* document nor a known attachment.
Dangling(line) ==
    /\ WikiPattern(line).found
    /\ LET parts == split(WikiPattern(line).group, <<"|">>)
           filenameWithExtension ==
               IF endsWith(parts[1], <<".", "m", "d">>) THEN parts[1] ELSE parts[1] \o <<".", "m", "d">>
       IN /\ getPathOfFile(fileInfo, filenameWithExtension) = Undefined
          /\ getPathOfImage(allSourceAssetsInfo, WikiPattern(line).group) = Undefined

\* C15: when a line references an attachment the attachment inventory does
\* not know, the failed registration is not fatal: the conversion of the
\* document goes on and a line is emitted for the reference.
C15_UnknownAttachmentIsNotFatal ==
    (LineHandled /\ RegistersWithoutPath(lastLine.links))
        => /\ lastLine.pass = "line"
           /\ mdpc # "rejected"
           /\ transformedContent # <<>>

\* C16: a line whose wiki-style link or embed names neither a known document
\* nor a known attachment is emitted unchanged, and the conversion of the
\* document is not rejected.
C16_DanglingWikiLinkPassesUnchanged ==
    (LineHandled /\ Dangling(lastLine.line))
        => /\ lastLine.pass = "line"
           /\ lastLine.out = lastLine.line
           /\ mdpc # "rejected"

\* convertObsidianLinks, the first of the four rewrites, does leave such a
\* line as it is.
DanglingPassesConvertObsidianLinks ==
    (LineHandled /\ Dangling(lastLine.line)) => lastLine.links = lastLine.line

\* The text after the last | of a wiki-style link, the whole of it when it
\* has none.
TitleOf(group) ==
    LET bars == {i \in 1..Len(group) : group[i] = "|"}
    IN IF bars = {} THEN group
       ELSE SubSeq(group, (CHOOSE i \in bars : \A j \in bars : j <= i) + 1, Len(group))

\* The name before the first | of a wiki-style link.
NameOf(group) ==
    LET bars == {i \in 1..Len(group) : group[i] = "|"}
    IN IF bars = {} THEN group ELSE SubSeq(group, 1, Least(bars) - 1)

\* The known documents the name of the line's wiki-style link resolves to.
DocumentsNamed(line) ==
    IF ~WikiPattern(line).found
    THEN {}
    ELSE {k \in 1..Len(fileInfo) :
             LET name == NameOf(WikiPattern(line).group)
             IN \/ fileInfo[k].fileName = name \o <<".", "m", "d">>
                \/ /\ endsWith(name, <<".", "m", "d">>)
                   /\ fileInfo[k].fileName = name}

\* The line with its wiki-style link replaced by [title](path).
WithStandardLink(line, path) ==
    replace(line, WikiPattern(line).all,
            <<"[">> \o TitleOf(WikiPattern(line).group) \o <<"]", "(">> \o path \o <<")">>)

\* C17 as stated: a wiki-style link whose name is a known document is
\* replaced by [title](P), P the target-relative path of that document.
C17_WikiLinkToTargetRelativePath ==
    (LineHandled /\ DocumentsNamed(lastLine.line) # {})
        => \E k \in DocumentsNamed(lastLine.line) :
              lastLine.links = WithStandardLink(lastLine.line, fileInfo[k].pathTargetRelative)

\* C17: wiki-link resolution asks the document inventory first, the
\* attachment inventory only when no document matches; a wiki-style link whose
\* name is a known document is replaced by [title](P), where title is the
\* text after | (the name when there is none) and P is the path of that
\* document relative to the vault, as the document inventory records it.
C17_WikiLinkToDocument ==
    (LineHandled /\ DocumentsNamed(lastLine.line) # {})
        => \E k \in DocumentsNamed(lastLine.line) :
              lastLine.links = WithStandardLink(lastLine.line, fileInfo[k].pathSourceRelative)

\* A link with a title to a known document has been rewritten.
C17_Witness ==
    /\ LineHandled
    /\ DocumentsNamed(lastLine.line) # {}
    /\ includes(WikiPattern(lastLine.line).group, <<"|">>)
    /\ lastLine.pass = "line"

\* The name of the rewritten link is a known document and a known
\* attachment as well: the document has been taken.
DocumentBeforeAttachmentWitness ==
    /\ LineHandled
    /\ DocumentsNamed(lastLine.line) # {}
    /\ getPathOfImage(allSourceAssetsInfo, WikiPattern(lastLine.line).group) # Undefined
    /\ lastLine.links = WithStandardLink(lastLine.line, fileInfo[1].pathSourceRelative)

\* The image the line embeds: the wiki embed of a known attachment, or an
\* embed with a path, of a name with an image extension. canonical is the
\* name with _ for every space.
ImageReference(line) ==
    LET wiki == WikiPattern(line)
        embed == EmbedPattern(line)
        named(nameWithExtension, size) ==
            LET parts == split(nameWithExtension, <<".">>)
            IN IF Len(parts) = 2 /\ parts[2] \in ImageExtensions
               THEN [found |-> TRUE,
                     canonical |-> [i \in 1..Len(parts[1]) |->
                                       IF parts[1][i] = " " THEN "_" ELSE parts[1][i]],
                     extension |-> parts[2],
                     size |-> size]
               ELSE NoMatch
    IN IF /\ wiki.found
          /\ Head(wiki.all) = "!"
          /\ getPathOfImage(allSourceAssetsInfo, wiki.group) # Undefined
       THEN named(wiki.group, Standard)
       ELSE IF embed.found
       THEN named(last(split(embed.path, <<"/">>)),
                  IF embed.size = Undefined THEN Standard ELSE embed.size)
       ELSE NoMatch

\* /assets/<canonical name><suffix>.<ext>: no suffix for the default size
\* tag, _<size> for another; the extension of the attachment or the one
\* images are converted to.
CanonicalOutputPaths(image) ==
    LET suffix == IF image.size = Standard THEN <<>> ELSE <<"_">> \o image.size
        stem == <<"/", "a", "s", "s", "e", "t", "s", "/">> \o image.canonical \o suffix \o <<".">>
    IN {stem \o image.extension, stem \o convertedImageType}

\* The line is a standard embed of one of the paths.
IsEmbedOf(line, paths) ==
    /\ startsWithAt(line, <<"!", "[">>, 1)
    /\ \E path \in paths : endsWith(line, <<"]", "(">> \o path \o <<")">>)

\* C18: the line the four rewrites make of an embedded image (the wiki
\* embed of a known attachment, ![|SIZE](path) or ![](path)) is a standard
\* embed of /assets/<canonical name><suffix>.<ext>, the suffix empty for the
\* default size tag and _<size> for an explicit one.
C18_ImageEmbedHasCanonicalPath ==
    (lastLine.pass = "line" /\ ~lastLine.wasInAdmonition /\ ImageReference(lastLine.line).found)
        => IsEmbedOf(lastLine.out, CanonicalOutputPaths(ImageReference(lastLine.line)))

\* The line has that path when checkForAssets returns it, before
\* checkForLinks rewrites it.
CheckForAssetsGivesCanonicalPath ==
    (lastLine.pass = "line" /\ ImageReference(lastLine.line).found)
        => IsEmbedOf(lastLine.assets, CanonicalOutputPaths(ImageReference(lastLine.line)))
CheckForAssetsGivesCanonicalPathWitness ==
    /\ lastLine.pass = "line"
    /\ ImageReference(lastLine.line).found
    /\ ImageReference(lastLine.line).size # Standard

\* The numeric ordering prefix of a path segment: its leading digits and
\* the dots, hyphens, parentheses and blanks that follow them.
RECURSIVE separatorsEnd(_, _)
separatorsEnd(s, i) ==
    IF i <= Len(s) /\ s[i] \in {".", "-", ")"} \cup WhiteSpace THEN separatorsEnd(s, i + 1) ELSE i
WithoutOrderingPrefix(segment) ==
    IF segment # <<>> /\ segment[1] \in Digits
    THEN SubSeq(segment, separatorsEnd(segment, digitsEnd(segment, 1)), Len(segment))
    ELSE segment

\* The line has a standard link and nothing else to rewrite; its path is
\* relative, has no scheme, no anchor and no flatten marker, is not under a
\* blog folder, and has two segments or more.
PlainRelativeLink(line) ==
    /\ LinkPattern(line).found
    /\ ~WikiPattern(line).found
    /\ ~EmbedPattern(line).found
    /\ LET url == LinkPattern(line).url
           segments == split(url, <<"/">>)
       IN /\ ~includes(url, <<"h", "t", "t", "p">>)
          /\ ~includes(url, <<"#">>)
          /\ ~includes(url, <<"+">>)
          /\ Len(segments) >= 2
          /\ segments[1] # <<>>
          /\ ~isBlogFolder(segments[1])

\* The path with the ordering prefix stripped from every segment, a
\* trailing .md dropped from the last one and a leading /.
NormalizedPath(url) ==
    LET segments == split(url, <<"/">>)
        n == Len(segments)
        stripped == SubSeq([k \in 1..n |-> WithoutOrderingPrefix(segments[k])], 1, n)
        named == IF endsWith(stripped[n], <<".", "m", "d">>)
                 THEN [stripped EXCEPT ![n] = SubSeq(@, 1, Len(@) - 3)]
                 ELSE stripped
    IN <<"/">> \o join(named, <<"/">>)

\* C19: for a relative link in a non-blog context checkForLinks strips the
\* numeric ordering prefix from every path segment, drops a trailing .md
\* from the last segment and emits the path with a leading /.
C19_RelativeLinkNormalized ==
    (lastLine.pass = "line" /\ PlainRelativeLink(lastLine.line))
        => lastLine.urls = replace(lastLine.line, LinkPattern(lastLine.line).url,
                                   NormalizedPath(LinkPattern(lastLine.line).url))

\* The example of the sentence: [x](02-guide/03-intro.md) becomes
\* [x](/guide/intro).
GuideIntroNormalized ==
    (lastLine.pass = "line"
     /\ lastLine.line = <<"[", "x", "]", "(", "0", "2", "-", "g", "u", "i", "d", "e", "/", "0", "3", "-", "i", "n", "t", "r", "o", ".", "m", "d", ")">>)
        => lastLine.urls = <<"[", "x", "]", "(", "/", "g", "u", "i", "d", "e", "/", "i", "n", "t", "r", "o", ")">>
GuideIntroNormalizedWitness ==
    /\ lastLine.pass = "line"
    /\ lastLine.urls = <<"[", "x", "]", "(", "/", "g", "u", "i", "d", "e", "/", "i", "n", "t", "r", "o", ")">>

\* A link whose path is one segment is left as it is (line 562).
SingleSegmentLinkUnchanged ==
    (/\ lastLine.pass = "line"
     /\ LinkPattern(lastLine.assets).found
     /\ ~includes(LinkPattern(lastLine.assets).url, <<"/">>))
        => lastLine.urls = lastLine.assets

\* ------------------------------------------------------ claims on callouts
\* The callout of three lines: its opening line, a body line, a blank line.
CalloutLines ==
    <<<<">", " ", "[", "!", "w", "a", "r", "n", "i", "n", "g", "]", " ", "C", "a", "r", "e", "f", "u", "l">>,
      <<">", " ", "b", "o", "d", "y", " ", "t", "e", "x", "t">>,
      <<>>>>
CalloutReturned == mdpc = "returned" /\ sourceContent = CalloutLines

\* C20 as stated: the three lines are converted to exactly
\* :::warning Careful\nbody text\n:::\n.
C20_CalloutOneNewlineEach ==
    CalloutReturned =>
        transformedContent =
            <<":", ":", ":", "w", "a", "r", "n", "i", "n", "g", " ", "C", "a", "r", "e", "f", "u", "l", "\n">>
            \o <<"b", "o", "d", "y", " ", "t", "e", "x", "t", "\n">>
            \o <<":", ":", ":", "\n">>

\* C20: the three lines > [!warning] Careful, > body text and a blank line
\* are converted by processMarkdown to exactly
\* :::warning Careful\n\nbody text\n:::\n\n: the opening line with type and
\* title and the terminator are each followed by two newlines, the
\* de-indented body line by one.
C20_CalloutConverted ==
    CalloutReturned =>
        transformedContent =
            <<":", ":", ":", "w", "a", "r", "n", "i", "n", "g", " ", "C", "a", "r", "e", "f", "u", "l", "\n", "\n">>
            \o <<"b", "o", "d", "y", " ", "t", "e", "x", "t", "\n">>
            \o <<":", ":", ":", "\n", "\n">>

\* processMarkdown has returned the text of the callout.
C20_Witness ==
    /\ CalloutReturned
    /\ ~inAdmonition
    /\ Len(transformedContent) > 0

\* --------------------------- copyMarkdownFilesToTarget, task by task
\* The tasks of copyMarkdownFilesToTarget (part_001, lines 482-505) share
\* assetJson. A task gives way to the others at each await: readFile (line
\* 490), the next line of readline (for await, line 405 of processMarkdown),
\* convertObsidianLinks (line 407) and writeFile (line 494). What runs
\* between two awaits runs alone: checkForAssets and the addToAssetJson it
\* calls are synchronous. A document is the attachments its lines embed, one
\* per line, all known to the attachment inventory; reads and writes succeed.
MaxRefs == 2
\* The embeds of the documents: the image at either size, the other file.
References ==
    {r \in [fileName : AssetNames, size : SizeTags] : r.fileName = "img" \/ r.size = "standard"}
ReferenceLists == UNION {[1..n -> References] : n \in 0..MaxRefs}

\* The registry the run starts the copy with: empty, or as an earlier run
\* left it.
StartRegistries == {<<>>, addToAssetJson(<<>>, "img", "standard", "a")}

CopyFrame == UNCHANGED <<envVars, handlerVars, markdownVars, layout, scanVars, allFilesInfoJson,
                         assetInfoJson, allSourceFilesInfo, targetJson, filesToDelete, pi,
                         pres, startFiles, changes, runChanges, runAfterDone, prevEnd,
                         startSite, convCount, delCount>>

\* files.map(async (file) => ...), line 482: one task per file, each run up
\* to its first await.
CopyStart ==
    /\ ppc = "idle"
    /\ lastStep = NoStep
    /\ \E registry \in StartRegistries, texts \in [Docs -> ReferenceLists] :
          /\ assetJson' = registry
          /\ tasks' = [k \in 1..Len(DocOrder) |->
                          [file |-> DocOrder[k], at |-> "readFile",
                           refs |-> texts[DocOrder[k]], line |-> 0]]
          /\ lastStep' = [pass |-> "copy", before |-> registry]
    /\ ppc' = "copy"
    /\ results' = <<>>
    /\ CopyFrame

\* Line 490 has resolved: processMarkdown is called and waits for its first
\* line.
CopyReadFile(k) ==
    /\ ppc = "copy"
    /\ tasks[k].at = "readFile"
    /\ tasks' = [tasks EXCEPT ![k].at = "readline"]
    /\ UNCHANGED <<assetJson, results, ppc, lastStep>>
    /\ CopyFrame

\* readline delivers the next line and convertObsidianLinks is awaited
\* (lines 405-407), or the lines are over: the text is returned and
\* writeFile is awaited (lines 417, 494).
CopyReadLine(k) ==
    /\ ppc = "copy"
    /\ tasks[k].at = "readline"
    /\ tasks' = IF tasks[k].line = Len(tasks[k].refs)
                THEN [tasks EXCEPT ![k].at = "writeFile"]
                ELSE [tasks EXCEPT ![k].at = "convertObsidianLinks", ![k].line = @ + 1]
    /\ UNCHANGED <<assetJson, results, ppc, lastStep>>
    /\ CopyFrame

\* Lines 408-413: checkForAssets registers the attachment of the line, and
\* the loop waits for the next line.
CopyCheckForAssets(k) ==
    /\ ppc = "copy"
    /\ tasks[k].at = "convertObsidianLinks"
    /\ assetJson' = addToAssetJson(assetJson, tasks[k].refs[tasks[k].line].fileName,
                                   tasks[k].refs[tasks[k].line].size, tasks[k].file)
    /\ tasks' = [tasks EXCEPT ![k].at = "readline"]
    /\ UNCHANGED <<results, ppc, lastStep>>
    /\ CopyFrame

\* Lines 494-502: the output is written and the file pushed to results.
CopyWriteFile(k) ==
    /\ ppc = "copy"
    /\ tasks[k].at = "writeFile"
    /\ tasks' = [tasks EXCEPT ![k].at = "done"]
    /\ results' = Append(results, tasks[k].file)
    /\ UNCHANGED <<assetJson, ppc, lastStep>>
    /\ CopyFrame

\* Lines 507-512: Promise.all has resolved and the registry is written.
CopySaveRegistry ==
    /\ ppc = "copy"
    /\ \A k \in 1..Len(tasks) : tasks[k].at = "done"
    /\ ppc' = "save"
    /\ assetInfoJson' = WriteFile(StringifyAssets(assetJson))
    /\ UNCHANGED <<envVars, handlerVars, markdownVars, layout, scanVars, allFilesInfoJson,
                   allSourceFilesInfo, targetJson, filesToDelete, pi, assetJson, tasks,
                   results, pres, startFiles, obsVars>>

NextCopy ==
    \/ CopyStart
    \/ \E k \in 1..Len(tasks) : CopyReadFile(k)
    \/ \E k \in 1..Len(tasks) : CopyReadLine(k)
    \/ \E k \in 1..Len(tasks) : CopyCheckForAssets(k)
    \/ \E k \in 1..Len(tasks) : CopyWriteFile(k)
    \/ CopySaveRegistry

SpecCopy == InitRegistry /\ [][NextCopy]_vars

\* ------------------------------------- claims on concurrent conversions
\* The documents that have registered the attachment at that size so far:
\* those of the starting registry and the tasks past such a line.
RegisteredSoFar(fileName, size) ==
    DocumentsOf(lastStep.before, fileName, size)
    \cup {tasks[k].file : k \in
             {t \in 1..Len(tasks) :
                 \E i \in 1..Len(tasks[t].refs) :
                    /\ tasks[t].refs[i] = [fileName |-> fileName, size |-> size]
                    /\ \/ i < tasks[t].line
                       \/ i = tasks[t].line /\ tasks[t].at # "convertObsidianLinks"}}

\* C21: when documents that reference the same attachment are converted
\* concurrently, in every interleaving of the tasks at their awaits the
\* registry has one AssetRecord per canonical name and one SizeVariant per
\* size tag, and the references of a SizeVariant are exactly the documents
\* that registered it, each once.
C21_ConcurrentRegistrationsKept ==
    (ppc \in {"copy", "save"} /\ lastStep.pass = "copy") =>
        \A fileName \in AssetNames, size \in SizeTags :
            /\ Cardinality(RecordsOf(assetJson, fileName)) <= 1
            /\ Cardinality(VariantsOf(assetJson, fileName, size)) <= 1
            /\ DocumentsOf(assetJson, fileName, size) = RegisteredSoFar(fileName, size)
            /\ \A x \in VariantsOf(assetJson, fileName, size) :
                  LET docs == assetJson[x[1]].sizes[x[2]].inDocuments
                  IN \A i, j \in 1..Len(docs) : docs[i] = docs[j] => i = j

\* Both documents have registered the same attachment at the same size, the
\* registry holds a second attachment as well, and it has been written.
C21_Witness ==
    /\ ppc = "save"
    /\ lastStep.pass = "copy"
    /\ lastStep.before = <<>>
    /\ \E fileName \in AssetNames, size \in SizeTags :
          /\ DocumentsOf(assetJson, fileName, size) = Docs
          /\ Len(assetJson) = 2

\* ------------------------------------------- claims on the order of a run
\* C22: within a run every deletion of a target output comes before the
\* first conversion write: a step of the run that deletes a target path is
\* taken while no document has been converted in that run, so a path
\* written by a conversion is not deleted later in the same run.
C22_DeletionsBeforeConversions ==
    [][(\E p \in DOMAIN delCount : delCount'[p] > delCount[p])
          => (\A d \in DOMAIN convCount : convCount[d] = 0)]_vars

\* A run has deleted the stale output of a document and then written it
\* again.
C22_Witness ==
    \E d \in Docs : convCount[d] = 1 /\ delCount[TargetOf(d)] = 1

\* ------------------------------------- claims on modified documents
\* The run has found the document modified since its conversion: it is in
\* the delete-set and still in the vault. The run has ended.
ModifiedInRun(d) ==
    /\ ppc = "return"
    /\ vault[d] # Absent
    /\ \E k \in 1..Len(filesToDelete) :
          HasPathKey(filesToDelete[k]) /\ filesToDelete[k].pathKey = d

ReferencedNow(d, fileName, size) ==
    \E i \in 1..Len(Refs(d, vault[d])) :
       Refs(d, vault[d])[i] = [fileName |-> fileName, size |-> size]

\* C23: after the run that found a document modified, the registry lists
\* the document for an attachment and size exactly when the document's
\* current text references that attachment at that size.
C23_ModifiedDocumentReferencesCurrent ==
    \A d \in Docs :
       ModifiedInRun(d) =>
          \A fileName \in AssetNames, size \in SizeTags :
             d \in DocumentsOf(RegistryContent(assetInfoJson), fileName, size)
                <=> ReferencedNow(d, fileName, size)

\* The same on the runs that went through: the registry was empty, so
\* nothing had to be released.
ModifiedDocumentOnCompletedRun ==
    \A d \in Docs :
       (ModifiedInRun(d) /\ pres = "done" /\ convCount[d] = 1) =>
          \A fileName \in AssetNames, size \in SizeTags :
             d \in DocumentsOf(RegistryContent(assetInfoJson), fileName, size)
                <=> ReferencedNow(d, fileName, size)

ModifiedDocumentOnCompletedRunWitness ==
    \E d \in Docs :
       /\ ModifiedInRun(d) /\ pres = "done" /\ convCount[d] = 1
       /\ \E fileName \in AssetNames, size \in SizeTags : ReferencedNow(d, fileName, size)

\* ------------------------------------------ claims on callout blocks
\* The line convertAdmonition was given carries a start marker.
IsStartMarker(line) == parseAdmonitionData(line).type # <<>>
IsQuoteMarker(line) == parseAdmonitionData(line).type = <<"q", "u", "o", "t", "e">>

\* C24: whatever lines convertAdmonition has been fed, at most one block
\* is open: inAdmonition and inQuote are never both true.
C24_AtMostOneBlockOpen == ~(inAdmonition /\ inQuote)

\* A start marker of the other kind has been fed to an open block: a quote
\* marker inside a callout, a callout marker inside a quote.
C24_Witness ==
    /\ lastLine.pass = "line"
    /\ IsStartMarker(lastLine.urls)
    /\ \/ lastLine.wasInAdmonition /\ IsQuoteMarker(lastLine.urls) /\ inAdmonition
       \/ lastLine.wasInQuote /\ ~IsQuoteMarker(lastLine.urls) /\ inQuote

\* The state of the callout machine before and after the last line.
WasInCallout == lastLine.pass = "line" /\ lastLine.wasInAdmonition /\ ~lastLine.wasInQuote
WasInQuote == lastLine.pass = "line" /\ lastLine.wasInQuote /\ ~lastLine.wasInAdmonition
WasIdle == lastLine.pass = "line" /\ ~lastLine.wasInAdmonition /\ ~lastLine.wasInQuote
NowIdle == ~inAdmonition /\ ~inQuote
NowInCallout == inAdmonition /\ ~inQuote
NowInQuote == inQuote /\ ~inAdmonition
Blank(line) == trim(line) = <<>>

\* C25: in a callout a blank line emits the terminator ::: and the machine
\* is idle again, any other line is emitted without its first characters,
\* as many as the recorded offset, and the callout stays open; in a quote a
\* blank line emits the attribution line with the recorded title and the
\* machine is idle again, any other line is emitted as it is and the quote
\* stays open.
C25_BlockTransitions ==
    /\ (WasInCallout /\ Blank(lastLine.urls)) =>
          /\ lastLine.out = <<":", ":", ":", "\n">>
          /\ NowIdle
    /\ (WasInCallout /\ ~Blank(lastLine.urls)) =>
          /\ lastLine.out = SubSeq(lastLine.urls, admonition.whitespaces + 1, Len(lastLine.urls))
          /\ NowInCallout
    /\ (WasInQuote /\ Blank(lastLine.urls)) =>
          /\ lastLine.out = <<">", "\n">> \o <<">", " ">> \o Attribution \o <<" ">>
                               \o admonition.title \o <<"\n">>
          /\ NowIdle
    /\ (WasInQuote /\ ~Blank(lastLine.urls)) =>
          /\ lastLine.out = lastLine.urls
          /\ NowInQuote

\* A callout has been closed by a blank line after a body line lost the
\* two characters of the recorded offset.
C25_Witness ==
    /\ WasInCallout /\ Blank(lastLine.urls)
    /\ admonition.whitespaces = 2
    /\ Len(sourceContent) = 3
    /\ ~Blank(sourceContent[2])
    /\ NowIdle

\* A quote with a title and a line has been closed by a blank line.
QuoteClosedWithAttribution ==
    /\ WasInQuote /\ Blank(lastLine.urls)
    /\ admonition.title # <<>>
    /\ Len(sourceContent) = 3
    /\ ~Blank(sourceContent[2])
    /\ NowIdle

\* A turn of the loop that handled a line without a throw.
LineStep ==
    /\ mdpc = "lines"
    /\ sourceLines # <<>>
    /\ sourceLines' = Tail(sourceLines)
    /\ lastLine'.pass = "line"

\* C26: with no block open, a line with the start marker > [!TYPE] opens a
\* quote when TYPE is quote and a callout for any other type, and a line
\* without the marker leaves no block open and is emitted as it is; with a
\* block open, a line with the start marker opens no other block and
\* leaves the recorded type, title and offset as they were.
C26_StartMarker ==
    [][LineStep =>
          /\ (~inAdmonition /\ ~inQuote /\ IsStartMarker(lastLine'.urls)) =>
                /\ admonition' = parseAdmonitionData(lastLine'.urls)
                /\ IF IsQuoteMarker(lastLine'.urls)
                   THEN inQuote' /\ ~inAdmonition'
                   ELSE inAdmonition' /\ ~inQuote'
          /\ (~inAdmonition /\ ~inQuote /\ ~IsStartMarker(lastLine'.urls)) =>
                /\ ~inAdmonition' /\ ~inQuote'
                /\ lastLine'.out = lastLine'.urls
          /\ ((inAdmonition \/ inQuote) /\ IsStartMarker(lastLine'.urls)) =>
                /\ inAdmonition' = inAdmonition
                /\ inQuote' = inQuote
                /\ admonition' = admonition]_vars

\* An open callout has been fed a quote marker: it is still the callout of
\* the first line, with its title and offset.
C26_Witness ==
    /\ WasInCallout
    /\ IsQuoteMarker(lastLine.urls)
    /\ NowInCallout
    /\ admonition = parseAdmonitionData(sourceContent[1])
    /\ admonition.type = <<"w", "a", "r", "n", "i", "n", "g">>
    /\ admonition.title # <<>>

\* A quote and a callout have been opened from the idle machine.
QuoteOpened == WasIdle /\ IsQuoteMarker(lastLine.urls) /\ NowInQuote
CalloutOpened ==
    WasIdle /\ IsStartMarker(lastLine.urls) /\ ~IsQuoteMarker(lastLine.urls) /\ NowInCallout

\* ------------------------------------------------ checkForLinks alone
\* checkForLinks on one standard link at a time. The path of the link is a
\* file, with or without a fragment, in up to MaxFolders folders, behind
\* nothing or behind a scheme and a host.
MaxFolders == 2
Folders ==
    {<<"b", "l", "o", "g">>,
     <<"p", "o", "s", "t", "s", "_", "_", "b", "l", "o", "g">>,
     <<"a", "_", "_", "b", "l", "o", "g", "s", "_", "_", "b", "l", "o", "g">>,
     <<"0", "2", "-", "g", "u", "i", "d", "e">>,
     <<"0", "2", "-", "g", "u", "i", "d", "e", "+">>,
     <<"2", "0", "2", "3", "-", "0", "1", "-", "m", "y", "+">>}
Files ==
    {<<"0", "3", "-", "i", "n", "t", "r", "o", ".", "m", "d">>,
     <<"0", "3", "-", "i", "n", "t", "r", "o", ".", "m", "d", "#", "M", "y", "%", "2", "0", "P", "a", "r", "t">>,
     <<"0", "3", "-", "i", "n", "t", "r", "o", "#", "M", "y", "%", "2", "0", "P", "a", "r", "t">>,
     <<"h", "t", "t", "p", "-", "b", "a", "s", "i", "c", "s", ".", "m", "d">>}
Origins ==
    {<<>>,
     <<"h", "t", "t", "p", ":", "/", "/", "e", ".", "o", "r", "g", "/">>,
     <<"h", "t", "t", "p", "s", ":", "/", "/", "e", ".", "o", "r", "g", "/">>,
     <<"f", "t", "p", ":", "/", "/", "e", ".", "o", "r", "g", "/">>}
LinkPaths ==
    UNION {{join(folders \o <<file>>, <<"/">>) : folders \in [1..n -> Folders], file \in Files} :
              n \in 0..MaxFolders}
LinkLines ==
    {<<"[", "x", "]", "(">> \o origin \o path \o <<")">> :
        origin \in Origins, path \in LinkPaths}

LinksFrame == UNCHANGED <<envVars, handlerVars, processVars, obsVars, sourceContent,
                          transformedContent, inAdmonition, inQuote, admonition>>

\* processMarkdown, line 409: checkForLinks is called with a line.
CallCheckForLinks ==
    /\ mdpc = "idle"
    /\ sourceLines' \in {<<line>> : line \in LinkLines}
    /\ mdpc' = "lines"
    /\ lastLine' = NoLine
    /\ LinksFrame

\* checkForLinks returns (lines 547-580).
ReturnCheckForLinks ==
    /\ mdpc = "lines"
    /\ sourceLines # <<>>
    /\ lastLine' = [pass |-> "checkForLinks", line |-> Head(sourceLines),
                    urls |-> checkForLinks(Head(sourceLines))]
    /\ sourceLines' = Tail(sourceLines)
    /\ mdpc' = "returned"
    /\ LinksFrame

\* checkForLinks is called with the line it has returned.
CallCheckForLinksAgain ==
    /\ mdpc = "returned"
    /\ lastLine.pass = "checkForLinks"
    /\ sourceLines' = <<lastLine.urls>>
    /\ mdpc' = "again"
    /\ UNCHANGED lastLine
    /\ LinksFrame

ReturnCheckForLinksAgain ==
    /\ mdpc = "again"
    /\ sourceLines # <<>>
    /\ lastLine' = [pass |-> "checkForLinksAgain", line |-> Head(sourceLines),
                    urls |-> checkForLinks(Head(sourceLines)), first |-> lastLine.line]
    /\ sourceLines' = Tail(sourceLines)
    /\ mdpc' = "returned"
    /\ LinksFrame

NextLinks ==
    \/ CallCheckForLinks
    \/ ReturnCheckForLinks
    \/ CallCheckForLinksAgain
    \/ ReturnCheckForLinksAgain

SpecLinks == InitRegistry /\ [][NextLinks]_vars

\* ------------------------------------------ claims on link rewriting
\* checkForLinks has returned; the path of the link before and after.
LinkHandled == lastLine.pass = "checkForLinks"
PathBefore == LinkPattern(lastLine.line).url
PathAfter == LinkPattern(lastLine.urls).url

\* A path with a URL scheme; a relative link is a path without a scheme
\* and with two or more segments.
HasScheme(path) == includes(path, <<":", "/", "/">>)
SegmentsOf(path) == split(path, <<"/">>)
IsRelativeLink(path) == ~HasScheme(path) /\ Len(SegmentsOf(path)) >= 2
FinalSegment(path) == last(SegmentsOf(path))

\* The fragment of a segment: what follows its first #.
HasFragment(segment) == includes(segment, <<"#">>)
FragmentOf(segment) ==
    SubSeq(segment, indexOfFrom(segment, <<"#">>, 1) + 1, Len(segment))
FileOf(segment) == SubSeq(segment, 1, indexOfFrom(segment, <<"#">>, 1) - 1)
ExpectedFragment(segment) ==
    toLowerCase(replaceAll(FragmentOf(segment), <<"%", "2", "0">>, <<"-">>))

\* C27: the rewritten path of a relative link whose final segment has a
\* #fragment has exactly one fragment, the original one in lower case with
\* every %20 replaced by -, whether the final segment ends in .md or not.
C27_OneFragment ==
    (LinkHandled /\ IsRelativeLink(PathBefore) /\ HasFragment(FinalSegment(PathBefore))) =>
        /\ Len(split(PathAfter, <<"#">>)) = 2
        /\ split(PathAfter, <<"#">>)[2] = ExpectedFragment(FinalSegment(PathBefore))

\* The same for the links whose file ends in .md or whose folder carries
\* the flatten marker, and whose path does not hold the letters http.
FragmentBehindMdOrMarker ==
    (/\ LinkHandled /\ IsRelativeLink(PathBefore) /\ HasFragment(FinalSegment(PathBefore))
     /\ ~includes(PathBefore, <<"h", "t", "t", "p">>)
     /\ \/ endsWith(FileOf(FinalSegment(PathBefore)), <<".", "m", "d">>)
        \/ endsWith(SegmentsOf(PathBefore)[Len(SegmentsOf(PathBefore)) - 1], <<"+">>)) =>
        /\ Len(split(PathAfter, <<"#">>)) = 2
        /\ split(PathAfter, <<"#">>)[2] = ExpectedFragment(FinalSegment(PathBefore))

FragmentBehindMdWitness ==
    /\ LinkHandled /\ IsRelativeLink(PathBefore) /\ HasFragment(FinalSegment(PathBefore))
    /\ endsWith(FileOf(FinalSegment(PathBefore)), <<".", "m", "d">>)
    /\ split(PathAfter, <<"#">>)[2] = <<"m", "y", "-", "p", "a", "r", "t">>

\* C28: checkForLinks returns the line of a standard link as it is, the
\* link being external, exactly when the path has a URL scheme; a path
\* without a scheme and with two or more segments is rewritten.
C28_ExternalByScheme ==
    LinkHandled =>
        /\ HasScheme(PathBefore) => lastLine.urls = lastLine.line
        /\ IsRelativeLink(PathBefore) =>
              /\ lastLine.urls # lastLine.line
              /\ startsWithAt(PathAfter, <<"/">>, 1)

\* What decides is the letters http anywhere in the path.
ExternalByLetters ==
    LinkHandled =>
        /\ includes(PathBefore, <<"h", "t", "t", "p">>) => lastLine.urls = lastLine.line
        /\ (~includes(PathBefore, <<"h", "t", "t", "p">>) /\ Len(SegmentsOf(PathBefore)) >= 2) =>
              /\ lastLine.urls # lastLine.line
              /\ startsWithAt(PathAfter, <<"/">>, 1)

\* An ftp link has been rewritten; a relative link to http-basics.md has
\* been left as it is.
SchemeRewritten ==
    /\ LinkHandled
    /\ startsWithAt(PathBefore, <<"f", "t", "p", ":", "/", "/">>, 1)
    /\ lastLine.urls # lastLine.line
RelativeLeft ==
    /\ LinkHandled
    /\ IsRelativeLink(PathBefore)
    /\ lastLine.urls = lastLine.line

\* The parts of a relative link the claims on blog folders and on the
\* flatten marker speak of.
BlogSuffix == <<"_", "_", "b", "l", "o", "g">>
FirstSegment(path) == SegmentsOf(path)[1]
InBlogContext(path) ==
    FirstSegment(path) = <<"b", "l", "o", "g">> \/ endsWith(FirstSegment(path), BlogSuffix)
WithoutBlogSuffix(segment) ==
    IF endsWith(segment, BlogSuffix)
    THEN SubSeq(segment, 1, Len(segment) - Len(BlogSuffix))
    ELSE segment
HasFlattenMarker(path) ==
    endsWith(SegmentsOf(path)[Len(SegmentsOf(path)) - 1], <<"+">>)
MarkerSegment(path) ==
    SubSeq(SegmentsOf(path)[Len(SegmentsOf(path)) - 1], 1,
           Len(SegmentsOf(path)[Len(SegmentsOf(path)) - 1]) - 1)
\* The final segment without its fragment and without .md.
Stem(segment) ==
    LET file == IF HasFragment(segment) THEN FileOf(segment) ELSE segment
    IN IF endsWith(file, <<".", "m", "d">>) THEN SubSeq(file, 1, Len(file) - 3) ELSE file
HyphenSplit(segment) == replaceAll(segment, <<"-">>, <<"/">>)
\* The rewritten path up to its fragment.
PathPart(path) == split(path, <<"#">>)[1]

\* The path of a blog link as the sentence gives it: the first segment
\* without __blog, the folders between as they are, and the final segment
\* (the marker segment under a flatten marker) with / for every hyphen.
BlogPath(path) ==
    LET parts == SegmentsOf(path)
        n == Len(parts)
        flat == HasFlattenMarker(path)
    IN <<"/">> \o join(<<WithoutBlogSuffix(parts[1])>>
                        \o SubSeq(parts, 2, IF flat THEN n - 2 ELSE n - 1)
                        \o <<HyphenSplit(IF flat THEN MarkerSegment(path) ELSE Stem(parts[n]))>>,
                       <<"/">>)

\* C29: a relative link whose first segment is blog or ends in __blog is
\* rewritten with __blog removed from the end of the first segment, the
\* hyphens of the final segment as path separators and no numeric prefix
\* stripped; a relative link with any other first segment is rewritten
\* without a separator put in place of a hyphen.
C29_BlogContext ==
    (LinkHandled /\ IsRelativeLink(PathBefore)) =>
        IF InBlogContext(PathBefore)
        THEN PathPart(PathAfter) = BlogPath(PathBefore)
        ELSE /\ startsWithAt(PathAfter, <<"/">>, 1)
             /\ Len(SegmentsOf(PathPart(PathAfter))) - 1 =
                    IF HasFlattenMarker(PathBefore)
                    THEN Len(SegmentsOf(PathBefore)) - 1
                    ELSE Len(SegmentsOf(PathBefore))

\* The same for the links that are rewritten at all and whose first
\* segment holds __blog at most once.
RewrittenLink ==
    /\ LinkHandled
    /\ IsRelativeLink(PathBefore)
    /\ ~includes(PathBefore, <<"h", "t", "t", "p">>)
BlogContextOfPlainNames ==
    (RewrittenLink
     /\ indexOfFrom(FirstSegment(PathBefore), BlogSuffix, 1)
            \in {0, Len(FirstSegment(PathBefore)) - Len(BlogSuffix) + 1}) =>
        IF InBlogContext(PathBefore)
        THEN PathPart(PathAfter) = BlogPath(PathBefore)
        ELSE /\ startsWithAt(PathAfter, <<"/">>, 1)
             /\ Len(SegmentsOf(PathPart(PathAfter))) - 1 =
                    IF HasFlattenMarker(PathBefore)
                    THEN Len(SegmentsOf(PathBefore)) - 1
                    ELSE Len(SegmentsOf(PathBefore))

BlogContextWitness ==
    /\ RewrittenLink
    /\ FirstSegment(PathBefore) = <<"p", "o", "s", "t", "s">> \o BlogSuffix
    /\ PathAfter = <<"/", "p", "o", "s", "t", "s", "/", "0", "2", "-", "g", "u", "i", "d", "e",
                     "/", "0", "3", "/", "i", "n", "t", "r", "o">>

\* The segments of the rewritten path, without the empty one before its
\* leading /, and those that stand where the marker segment stood.
SegmentsAfter == Tail(SegmentsOf(PathPart(PathAfter)))
InPlaceOfMarker ==
    join(SubSeq(SegmentsAfter, Len(SegmentsOf(PathBefore)) - 1, Len(SegmentsAfter)), <<"/">>)
Flattened(marker, blog) ==
    IF blog THEN HyphenSplit(marker) ELSE WithoutOrderingPrefix(marker)

\* C30: a relative link whose second-to-last segment ends with the flatten
\* marker + is rewritten to a path of one segment fewer: the final segment
\* is dropped and the marker segment stands in its place without the
\* trailing +, with / for its hyphens in blog context and without its
\* numeric prefix otherwise.
C30_FlattenMarker ==
    (LinkHandled /\ IsRelativeLink(PathBefore) /\ HasFlattenMarker(PathBefore)) =>
        /\ startsWithAt(PathAfter, <<"/">>, 1)
        /\ Len(SegmentsAfter) >= Len(SegmentsOf(PathBefore)) - 1
        /\ ~InBlogContext(PathBefore) => Len(SegmentsAfter) = Len(SegmentsOf(PathBefore)) - 1
        /\ InPlaceOfMarker = Flattened(MarkerSegment(PathBefore), InBlogContext(PathBefore))

\* The same with the numeric prefix as removeNumberPrefix strips it, once
\* at line 594 and once more at line 605, for the links that are rewritten
\* at all.
FlattenMarkerAsStripped ==
    (RewrittenLink /\ HasFlattenMarker(PathBefore)) =>
        /\ startsWithAt(PathAfter, <<"/">>, 1)
        /\ Len(SegmentsAfter) >= Len(SegmentsOf(PathBefore)) - 1
        /\ ~InBlogContext(PathBefore) => Len(SegmentsAfter) = Len(SegmentsOf(PathBefore)) - 1
        /\ InPlaceOfMarker =
              IF InBlogContext(PathBefore)
              THEN HyphenSplit(MarkerSegment(PathBefore))
              ELSE removeNumberPrefix(removeNumberPrefix(MarkerSegment(PathBefore)))

FlattenMarkerWitness ==
    /\ RewrittenLink
    /\ PathBefore = <<"p", "o", "s", "t", "s", "_", "_", "b", "l", "o", "g", "/",
                      "2", "0", "2", "3", "-", "0", "1", "-", "m", "y", "+", "/",
                      "0", "3", "-", "i", "n", "t", "r", "o", ".", "m", "d">>
    /\ PathAfter = <<"/", "p", "o", "s", "t", "s", "/", "2", "0", "2", "3", "/", "0", "1", "/", "m", "y">>
FlattenedGuideWitness ==
    /\ RewrittenLink
    /\ PathBefore = <<"0", "2", "-", "g", "u", "i", "d", "e", "+", "/",
                      "0", "3", "-", "i", "n", "t", "r", "o", ".", "m", "d">>
    /\ PathAfter = <<"/", "g", "u", "i", "d", "e">>

\* ------------------------------------- claims on index-based removal
\* The entries of the start ledger at the indices K, in their order.
LedgerAt(K) ==
    LET idx == SelectSeq([k \in 1..Len(StartLedger) |-> k], LAMBDA k : k \in K)
    IN [j \in 1..Len(idx) |-> StartLedger[idx[j]]]
NotSelectedAtStart == (1..Len(StartLedger)) \ SelectedAtStart
OwnPath(k) ==
    \A j \in 1..Len(StartLedger) :
       StartLedger[j].pathTargetAbsolute = StartLedger[k].pathTargetAbsolute => j = k

\* The ledger is the start ledger without some entries of the delete-set:
\* every entry outside the delete-set is there, the survivors are in their
\* original order, and a selected entry that survives is one whose output
\* could not be unlinked.
RemovedWithinDeleteSet ==
    \E K \in SUBSET (1..Len(StartLedger)) :
       /\ NotSelectedAtStart \subseteq K
       /\ targetJson = LedgerAt(K)
       /\ \A k \in K \cap SelectedAtStart :
             OwnPath(k) => site[StartLedger[k].pathTargetAbsolute] # Absent

\* C31: after deleteFiles the ledger is the list the run started with
\* without the entries at the indices of the delete-set, those excepted
\* whose unlink failed with an error other than not-found, and with the
\* survivors in their original order: no entry outside the delete-set is
\* removed.
C31_OnlyDeleteSetRemoved == DeletionsOver => RemovedWithinDeleteSet

\* deleteFiles of part_001: at every turn of its loop the entries still to
\* be handled stand at the indices the delete-set gives, and when it
\* returns the statement of C31 holds.
IndicesStable ==
    (ppc = "deleteFiles" /\ filesToDelete # <<>>) =>
        /\ \A j \in pi..Len(filesToDelete) :
              /\ filesToDelete[j].index <= Len(targetJson)
              /\ targetJson[filesToDelete[j].index] = StartLedger[filesToDelete[j].index]
        /\ pi > Len(filesToDelete) => RemovedWithinDeleteSet

\* deleteFiles of part_001 has returned: it has removed an entry of the
\* delete-set and kept another entry of the ledger.
IndicesStableWitness ==
    /\ ppc = "deleteFiles" /\ pi > Len(filesToDelete)
    /\ Len(filesToDelete) >= 1
    /\ Len(targetJson) >= 1
    /\ Len(targetJson) < Len(StartLedger)

\* ---------------------------------------- the directories of the target tree
\* Deepest nesting of folders below a main folder of the site.
MaxDepth == 2

\* A path is the sequence of its segments; path.dirname of the filesystem
\* root is the root itself.
Dirname(p) == IF p = <<>> THEN <<>> ELSE SubSeq(p, 1, Len(p) - 1)

\* basePath (the vault) and, beside it, the website directory that
\* getTargetPath resolves `..\<docusaurusWebsiteDirectory>\` to; below it the
\* main folder of the documents.
VaultDir == <<"w", "vault">>
WebsiteDir == <<"w", "site">>
MainPathDir == WebsiteDir \o <<"docs">>

FolderAt(n) == MainPathDir \o [k \in 1..n |-> "sub"]
OutputFiles == {FolderAt(n) \o <<"a.md">> : n \in 0..MaxDepth}
\* What the website directory holds besides outputs.
OtherFiles == {WebsiteDir \o <<"package.json">>}

Ancestors(p) == {SubSeq(p, 1, k) : k \in 0..(Len(p) - 1)}
Directories == UNION {Ancestors(f) : f \in OutputFiles}
TreePaths == Directories \cup OutputFiles \cup OtherFiles \cup {VaultDir}

\* fs.readdir: the entries of a directory.
ChildrenOf(tree, d) == {p \in DOMAIN tree : p # <<>> /\ Dirname(p) = d /\ tree[p] # Absent}

\* The tree that holds the given files, every directory above them, the
\* vault and the website directory.
TreeOf(files) ==
    [p \in TreePaths |->
        IF p \in files \cup {VaultDir, WebsiteDir} \cup Ancestors(WebsiteDir)
                 \cup UNION {Ancestors(f) : f \in files}
        THEN 1 ELSE Absent]

StartTrees == {TreeOf(outputs \cup others) : outputs \in SUBSET OutputFiles, others \in SUBSET OtherFiles}

InitDirectories ==
    /\ InitCommon
    /\ vault \in [Docs -> {Absent, 1}]
    /\ config = [mainLanguage |-> MainLanguage]
    /\ layout = "plain"
    /\ \A doc \in Docs : vault[doc] = Absent
    /\ site \in StartTrees
    /\ startSite = site
    /\ delCount = NoCount(TargetPaths(layout))

DirectoriesFrame == UNCHANGED <<vault, now, handlerVars, markdownVars, layout, config, mainFolders,
                                allFilesInfoJson,
                                assetInfoJson, allSourceFilesInfo, targetJson, filesToDelete, pi,
                                assetJson, tasks, results, pres, startFiles, changes, runChanges,
                                runAfterDone, prevEnd, startSite, convCount, delCount>>

\* deleteFiles, lines 428-430: the output is unlinked and
\* deleteParentDirectories is called with its path.
UnlinkTarget(f) ==
    /\ ppc = "idle"
    /\ site[f] # Absent
    /\ site' = [site EXCEPT ![f] = Absent]
    /\ dirPath' = Dirname(f)
    /\ ppc' = "deleteParentDirectories"
    /\ lastStep' = [pass |-> "unlink", file |-> f]
    /\ DirectoriesFrame

\* What fs.promises.rmdir answers for a directory.
RmdirCodes(tree, d) ==
    IF tree[d] = Absent THEN {"ENOENT"}
    ELSE IF ChildrenOf(tree, d) # {} THEN {"ENOTEMPTY", "EACCES"}
    ELSE {"removed", "EACCES"}

\* deleteParentDirectories, lines 186-198: one turn of the loop. The loop
\* ends where dirPath has no parent; a failing rmdir ends the function,
\* whatever its code.
RmdirTurn ==
    /\ ppc = "deleteParentDirectories"
    /\ IF dirPath = Dirname(dirPath)
       THEN /\ ppc' = "idle"
            /\ lastStep' = [pass |-> "rmdir", file |-> lastStep.file, path |-> dirPath, code |-> "top"]
            /\ UNCHANGED <<site, dirPath>>
       ELSE \E code \in RmdirCodes(site, dirPath) :
               /\ lastStep' = [pass |-> "rmdir", file |-> lastStep.file, path |-> dirPath, code |-> code]
               /\ IF code = "removed"
                  THEN /\ site' = [site EXCEPT ![dirPath] = Absent]
                       /\ dirPath' = Dirname(dirPath)
                       /\ UNCHANGED ppc
                  ELSE /\ ppc' = "idle"
                       /\ UNCHANGED <<site, dirPath>>
    /\ DirectoriesFrame

\* Between two awaits of the walk something else writes a file into a
\* directory that exists.
CreateConcurrently(f) ==
    /\ ppc = "deleteParentDirectories"
    /\ site[f] = Absent
    /\ site[Dirname(f)] # Absent
    /\ site' = [site EXCEPT ![f] = 1]
    /\ UNCHANGED <<dirPath, ppc, lastStep>>
    /\ DirectoriesFrame

\* MarkdownFileHandler.checkTargetFiles, line 224: targetFile.deleteFile()
\* removes the output alone.
DeleteTargetFile(f) ==
    /\ ppc = "idle"
    /\ site[f] # Absent
    /\ site' = [site EXCEPT ![f] = Absent]
    /\ lastStep' = [pass |-> "deleteFile", file |-> f]
    /\ UNCHANGED <<dirPath, ppc>>
    /\ DirectoriesFrame

\* MarkdownFileHandler.removeEmptyDirectories, lines 324-347: every
\* subdirectory is cleared first and removed when nothing is left in it.
RECURSIVE removeEmptyDirectories(_, _)
RECURSIVE removeEach(_, _, _)
removeEach(tree, directoryPath, directories) ==
    IF directories = {} THEN tree
    ELSE LET fullDirPath == CHOOSE d \in directories : TRUE
             cleared == removeEmptyDirectories(tree, fullDirPath)
             after == IF ChildrenOf(cleared, fullDirPath) = {} /\ directoryPath # VaultDir
                      THEN [cleared EXCEPT ![fullDirPath] = Absent]
                      ELSE cleared
         IN removeEach(after, directoryPath, directories \ {fullDirPath})

removeEmptyDirectories(tree, directoryPath) ==
    removeEach(tree, directoryPath, ChildrenOf(tree, directoryPath) \cap Directories)

\* startConversion, line 52.
RemoveEmptyDirectories ==
    /\ ppc = "idle"
    /\ site[WebsiteDir] # Absent
    /\ site' = removeEmptyDirectories(site, WebsiteDir)
    /\ lastStep' = [pass |-> "removeEmptyDirectories"]
    /\ UNCHANGED <<dirPath, ppc>>
    /\ DirectoriesFrame

NextDirectories ==
    \/ \E f \in OutputFiles : UnlinkTarget(f)
    \/ RmdirTurn
    \/ \E f \in OutputFiles \cup OtherFiles : CreateConcurrently(f)
    \/ \E f \in OutputFiles : DeleteTargetFile(f)
    \/ RemoveEmptyDirectories

SpecDirectories == InitDirectories /\ [][NextDirectories]_vars

\* ------------------------------------- claims on emptied parent directories
\* The walk of deleteParentDirectories for an unlinked output has returned
\* because a directory was not empty.
WalkStopped == ppc = "idle" /\ lastStep.pass = "rmdir" /\ lastStep.code \in {"ENOTEMPTY", "top"}

\* The directories above a file and below the website directory.
ParentsBelowRoot(f) == {d \in Ancestors(f) : Len(d) > Len(WebsiteDir)}

NoEmptyDirectory(D) == \A d \in D : site[d] = Absent \/ ChildrenOf(site, d) # {}

\* C32: after a target output is deleted, every parent directory that
\* thereby became empty is removed walking upward, the walk stops at the
\* first non-empty directory, and the root of the target tree is never
\* removed, even when no output remains in the tree.
C32_EmptyParentsRemovedRootKept ==
    /\ site[WebsiteDir] # Absent
    /\ WalkStopped => NoEmptyDirectory(ParentsBelowRoot(lastStep.file))

\* What holds of the walk: where it stops, no directory above the deleted
\* output is left empty, and it only ever removes empty directories.
WalkRemovesEmptyParents ==
    WalkStopped => NoEmptyDirectory(Ancestors(lastStep.file) \ {<<>>})

WalkRemovesEmptyParentsWitness ==
    /\ WalkStopped
    /\ lastStep.code = "ENOTEMPTY"
    /\ site[Dirname(lastStep.file)] = Absent
    /\ site[MainPathDir] # Absent

\* What holds of removeEmptyDirectories: it leaves no empty directory below
\* the directory it is called with, and never removes that directory.
RemoveEmptyDirectoriesKeepsRoot ==
    lastStep.pass = "removeEmptyDirectories" =>
        /\ site[WebsiteDir] # Absent
        /\ NoEmptyDirectory(Directories \ ({WebsiteDir} \cup Ancestors(WebsiteDir)))

RemoveEmptyDirectoriesKeepsRootWitness ==
    /\ lastStep.pass = "removeEmptyDirectories"
    /\ ChildrenOf(site, WebsiteDir) = {}
    /\ startSite[MainPathDir] # Absent

\* ------------------------------------------- the inventory of source files
\* The files of the main folder docs, as pathSourceRelative, in the order
\* searchFilesInFolder lists them.
SourceOrder ==
    <<<<"d", "o", "c", "s", "\\", "i", "n", "t", "r", "o", ".", "m", "d">>,
      <<"d", "o", "c", "s", "\\", "i", "n", "t", "r", "o", "_", "_", "d", "e", ".", "m", "d">>,
      <<"d", "o", "c", "s", "\\", "i", "n", "t", "r", "o", "_", "_", "e", "n", ".", "m", "d">>,
      <<"d", "o", "c", "s", "\\", "g", "u", "i", "d", "e", "+", "\\", "a", ".", "m", "d">>>>
SourcePaths == {SourceOrder[k] : k \in 1..Len(SourceOrder)}

Letters == {LowerCase[k] : k \in 1..Len(LowerCase)} \cup {UpperCase[k] : k \in 1..Len(UpperCase)}

\* path.basename, path.dirname and path.parse of a Windows path.
basename(p) == last(split(p, <<"\\">>))
dirname(p) == LET parts == split(p, <<"\\">>) IN join(SubSeq(parts, 1, Len(parts) - 1), <<"\\">>)
parse(fileName) ==
    LET dot == lastIndexOf(fileName, ".")
    IN IF dot <= 1 THEN [name |-> fileName, ext |-> <<>>]
       ELSE [name |-> SubSeq(fileName, 1, dot - 1), ext |-> SubSeq(fileName, dot, Len(fileName))]

\* A setting that is missing, or the empty string, is falsy.
Truthy(x) == x # Undefined /\ x # <<>>

\* sanitizeFileName, lines 270-295: the language is the two letters behind a
\* final "__", or else the main language; without either it throws.
sanitizeFileName(fileName, cfg) ==
    LET parsedPath == parse(fileName)
        name == parsedPath.name
        n == Len(name)
        languageMatch == /\ n >= 4
                         /\ name[n - 3] = "_" /\ name[n - 2] = "_"
                         /\ name[n - 1] \in Letters /\ name[n] \in Letters
    IN IF languageMatch
       THEN [threw |-> FALSE, fileNameClean |-> trim(split(name, <<"_", "_">>)[1]),
             fileExtension |-> parsedPath.ext, language |-> SubSeq(name, n - 1, n)]
       ELSE IF Truthy(cfg.mainLanguage)
       THEN [threw |-> FALSE, fileNameClean |-> trim(name),
             fileExtension |-> parsedPath.ext, language |-> cfg.mainLanguage]
       ELSE [threw |-> TRUE]

\* getTargetPath, lines 297-368, for a file of type docs: the path of the
\* output relative to the website directory.
pathTargetRelative(pathSourceRelative, language, fileExtension, cfg) ==
    LET parentFolder == basename(dirname(pathSourceRelative))
        isMainLanguage == language = cfg.mainLanguage
        mainPath == IF isMainLanguage THEN <<>>
                    ELSE <<"i", "1", "8", "n", "\\">> \o language \o <<"\\", "d", "o", "c", "u", "s", "a", "u", "r", "u", "s", "-", "p", "l", "u", "g", "i", "n", "-", "c", "o", "n", "t", "e", "n", "t", "-", "d", "o", "c", "s", "\\", "c", "u", "r", "r", "e", "n", "t">>
        pathParts == LET parts == split(pathSourceRelative, <<"\\">>) IN SubSeq(parts, 1, Len(parts) - 1)
        lastPart == last(pathParts)
        unmarked == [pathParts EXCEPT ![Len(pathParts)] =
                        IF endsWith(lastPart, <<"+">>) THEN SubSeq(lastPart, 1, Len(lastPart) - 1)
                        ELSE lastPart]
        flattened == IF endsWith(parentFolder, <<"+">>) /\ Len(pathParts) > 0
                     THEN join(SubSeq(unmarked, 1, Len(unmarked)), <<"\\">>) \o fileExtension
                     ELSE pathSourceRelative
        withoutLanguage == replace(flattened, <<"_", "_">> \o language, <<>>)
        finalPathSourceRelative ==
            IF endsWith(withoutLanguage, <<".", "y", "m", "l", ".", "m", "d">>)
            THEN replace(withoutLanguage, <<".", "y", "m", "l", ".", "m", "d">>, <<".", "y", "m", "l">>)
            ELSE withoutLanguage
    IN IF mainPath = <<>> THEN finalPathSourceRelative
       ELSE mainPath \o <<"\\">> \o finalPathSourceRelative

\* getSourceFileInfo, lines 239-268, for one file found in the vault.
getSourceFileInfo(filePath, mtime, cfg) ==
    LET clean == sanitizeFileName(basename(filePath), cfg)
    IN IF clean.threw \/ clean.fileExtension = <<>>
       THEN [threw |-> TRUE]
       ELSE [threw |-> FALSE,
             info |-> [pathSourceRelative |-> filePath,
                       pathTargetAbsolute |->
                           pathTargetRelative(filePath, clean.language, clean.fileExtension, cfg),
                       dateModified |-> Date(mtime),
                       dateModifiedTarget |-> Undefined]]

\* The settings: with a main language, or without one.
Configs == {[mainLanguage |-> <<"e", "n">>], [mainLanguage |-> Undefined]}

\* Every output path a file of the vault can be given.
InventoryTargets ==
    {getSourceFileInfo(p, 1, cfg).info.pathTargetAbsolute :
        p \in {x \in SourcePaths : ~getSourceFileInfo(x, 1, [mainLanguage |-> Undefined]).threw},
        cfg \in Configs}
    \cup {getSourceFileInfo(p, 1, [mainLanguage |-> <<"e", "n">>]).info.pathTargetAbsolute :
             p \in SourcePaths}

InitInventory ==
    /\ InitCommon
    /\ layout = "plain"
    /\ config \in Configs
    /\ vault \in [SourcePaths -> {Absent, 1}]
    /\ site = [p \in InventoryTargets |-> Absent]
    /\ startSite = site
    /\ delCount = NoCount(InventoryTargets)

InventoryFrame == UNCHANGED <<now, handlerVars, markdownVars, layout, dirPath, config, assetInfoJson,
                              pi, assetJson, tasks, startFiles, changes, runChanges, runAfterDone,
                              prevEnd, convCount, delCount>>

\* Between two runs the user adds a file to the vault or removes one.
EditVault(p) ==
    /\ ppc = "idle"
    /\ vault' = [vault EXCEPT ![p] = IF @ = Absent THEN 1 ELSE Absent]
    /\ UNCHANGED <<site, mainFolders, allFilesInfoJson, ppc, allSourceFilesInfo, targetJson,
                   filesToDelete, results, pres, startSite, lastStep>>
    /\ InventoryFrame

\* obsidiosaurusProcess, lines 17-18: the main folders are searched.
ScanMainFolders ==
    /\ ppc = "idle"
    /\ mainFolders' = SelectSeq(SourceOrder, LAMBDA p : vault[p] # Absent)
    /\ ppc' = "getSourceFileInfo"
    /\ pres' = "none"
    /\ startSite' = site
    /\ allSourceFilesInfo' = <<>>
    /\ targetJson' = <<>>
    /\ filesToDelete' = <<>>
    /\ results' = <<>>
    /\ lastStep' = [pass |-> "scan"]
    /\ UNCHANGED <<vault, site, allFilesInfoJson>>
    /\ InventoryFrame

\* Line 25: getSourceFileInfo for every file found; the first throw ends
\* the run.
GetSourceFileInfos ==
    /\ ppc = "getSourceFileInfo"
    /\ LET allInfo == [k \in 1..Len(mainFolders) |->
                          getSourceFileInfo(mainFolders[k], vault[mainFolders[k]], config)]
       IN IF \E k \in 1..Len(allInfo) : allInfo[k].threw
          THEN /\ ppc' = "idle"
               /\ pres' = "aborted"
               /\ mainFolders' = <<>>
               /\ UNCHANGED allSourceFilesInfo
          ELSE /\ ppc' = "deleteFiles"
               /\ allSourceFilesInfo' = [k \in 1..Len(allInfo) |-> allInfo[k].info]
               /\ UNCHANGED <<pres, mainFolders>>
    /\ lastStep' = [pass |-> "getSourceFileInfo"]
    /\ UNCHANGED <<vault, site, allFilesInfoJson, targetJson, filesToDelete, results, startSite>>
    /\ InventoryFrame

\* Lines 35-75: the ledger is read, the outputs of the delete-set are
\* removed with their entries, and the ledger is written.
DeleteAndSave ==
    /\ ppc = "deleteFiles"
    /\ LET infos == checkFilesExistence(readTargetJson(allFilesInfoJson), site)
           toDelete == getFilesToDelete(allSourceFilesInfo, infos)
           indices == {toDelete[k].index : k \in 1..Len(toDelete)}
           kept == SelectSeq([k \in 1..Len(infos) |-> k], LAMBDA k : k \notin indices)
           ledger == [k \in 1..Len(kept) |-> infos[kept[k]]]
       IN /\ filesToDelete' = SortDescending(toDelete)
          /\ site' = [p \in DOMAIN site |->
                         IF \E k \in indices : infos[k].pathTargetAbsolute = p THEN Absent ELSE site[p]]
          /\ targetJson' = ParseInfo(StringifyInfo(ledger))
          /\ allFilesInfoJson' = WriteFile(StringifyInfo(ledger))
    /\ ppc' = "compareSource"
    /\ lastStep' = [pass |-> "deleteFiles"]
    /\ UNCHANGED <<vault, mainFolders, allSourceFilesInfo, results, pres, startSite>>
    /\ InventoryFrame

\* Lines 78-96: the files without a ledger entry are converted, each to its
\* target path, and the ledger is written again; without such a file the
\* run returns at line 83.
ConvertAndSave ==
    /\ ppc = "compareSource"
    /\ LET filesToProcess == compareSource(allSourceFilesInfo, targetJson)
           files == [k \in 1..Len(filesToProcess) |-> allSourceFilesInfo[filesToProcess[k]]]
           ledger == targetJson \o files
       IN /\ site' = [p \in DOMAIN site |->
                         IF \E k \in 1..Len(files) : files[k].pathTargetAbsolute = p THEN now ELSE site[p]]
          /\ allFilesInfoJson' = IF files = <<>> THEN allFilesInfoJson
                                 ELSE WriteFile(StringifyInfo(ledger))
          /\ lastStep' = [pass |-> "copy", files |-> files, inventory |-> allSourceFilesInfo,
                          ledger |-> ledger]
    /\ ppc' = "idle"
    /\ pres' = "done"
    /\ mainFolders' = <<>>
    /\ allSourceFilesInfo' = <<>>
    /\ targetJson' = <<>>
    /\ filesToDelete' = <<>>
    /\ UNCHANGED <<vault, results, startSite>>
    /\ InventoryFrame

NextInventory ==
    \/ \E p \in SourcePaths : EditVault(p)
    \/ ScanMainFolders
    \/ GetSourceFileInfos
    \/ DeleteAndSave
    \/ ConvertAndSave

SpecInventory == InitInventory /\ [][NextInventory]_vars

\* ------------------------------------------ claims on the main language
MainLanguageMissing == ~Truthy(config.mainLanguage)

NothingWritten == ~allFilesInfoJson.exists /\ \A p \in DOMAIN site : site[p] = Absent

\* C33: if the main-language setting is missing, the run fails with a
\* configuration error before it deletes, converts or persists anything,
\* whatever the vault holds, also when every file name carries a language
\* suffix. (The scan of the vault that precedes the failure is granted.)
C33_MissingMainLanguageFails ==
    MainLanguageMissing =>
        /\ ppc \in {"idle", "getSourceFileInfo"}
        /\ pres # "done"
        /\ NothingWritten

\* What holds: without a main language the run goes on only when every file
\* found carries a language suffix, and a run that has thrown has written
\* nothing.
HasLanguageSuffix(p) == ~sanitizeFileName(basename(p), [mainLanguage |-> Undefined]).threw

MissingMainLanguageStopsUnsuffixed ==
    MainLanguageMissing =>
        /\ ppc \in {"deleteFiles", "compareSource"} =>
              \A k \in 1..Len(mainFolders) : HasLanguageSuffix(mainFolders[k])
        /\ (pres = "aborted" /\ lastStep.pass = "getSourceFileInfo") => site = startSite

MissingMainLanguageStopsUnsuffixedWitness ==
    /\ MainLanguageMissing
    /\ pres = "aborted"
    /\ lastStep.pass = "getSourceFileInfo"
    /\ allFilesInfoJson.exists

\* ------------------------------------- claims on the paths tasks write to
TargetOfTask(k) == tasks[k].file.pathTargetAbsolute

\* C34: no two documents converted in the same run are written to the same
\* target path: the tasks of copyMarkdownFilesToTarget have pairwise
\* distinct target paths.
C34_DistinctTargetPaths ==
    \A j \in 1..Len(tasks) : \A k \in 1..Len(tasks) : j # k => TargetOfTask(j) # TargetOfTask(k)

\* What holds: while the tasks run, a path of the target tree changes only
\* by the write of a task whose document has that target path, and in a
\* vault without a flatten marker the target paths of the tasks differ.
TasksWriteOwnPath ==
    [][ppc = "copy" =>
          \A p \in DOMAIN site :
             site'[p] # site[p] =>
                \E k \in 1..Len(tasks) :
                   /\ tasks[k].at = "writeFile"
                   /\ tasks'[k].at = "done"
                   /\ TargetOfTask(k) = p]_vars

PlainTargetPathsDistinct == layout = "plain" => C34_DistinctTargetPaths

PlainTargetPathsDistinctWitness ==
    /\ layout = "plain"
    /\ Len(tasks) = 2
    /\ \A k \in 1..Len(tasks) : tasks[k].at = "done"
    /\ \A k \in 1..Len(tasks) : site[TargetOfTask(k)] # Absent

\* --------------------------------- claims on the ledger of a completed run
\* The last run completed and nothing was changed since it started.
HandlerCompleted == hpc = "idle" /\ hres = "done" /\ changes = NoChange

\* C35: after every successfully completed run, each source document of
\* the inventory has exactly one ledger entry, and the target file that
\* entry records exists in the target tree.
C35_OneEntryAndOutputPerSource ==
    HandlerCompleted =>
        \A d \in Docs :
            vault[d] # Absent =>
                /\ Cardinality(EntriesOf(prevEnd, d)) = 1
                /\ \A k \in EntriesOf(prevEnd, d) : site[prevEnd[k].targetPath] # Absent

\* What holds of startConversion: every source document has an entry, and
\* the targets the entries record exist.
HandlerEntryAndOutputPerSource ==
    HandlerCompleted =>
        \A d \in Docs :
            vault[d] # Absent =>
                /\ EntriesOf(prevEnd, d) # {}
                /\ \A k \in EntriesOf(prevEnd, d) : site[prevEnd[k].targetPath] # Absent

HandlerEntryAndOutputPerSourceWitness ==
    /\ HandlerCompleted
    /\ \A d \in Docs : vault[d] # Absent /\ Cardinality(EntriesOf(prevEnd, d)) = 1

\* What holds of obsidiosaurusProcess: the ledger a completed run has
\* written holds exactly one entry for every source document, and its
\* target exists.
ProcessCompleted == Idle /\ pres = "done" /\ changes = NoChange
WrittenLedger == readTargetJson(allFilesInfoJson)
WrittenEntriesOf(d) == {k \in 1..Len(WrittenLedger) : WrittenLedger[k].pathSourceRelative = d}

ProcessOneEntryAndOutputPerSource ==
    ProcessCompleted =>
        \A d \in Docs :
            vault[d] # Absent =>
                /\ Cardinality(WrittenEntriesOf(d)) = 1
                /\ \A k \in WrittenEntriesOf(d) : site[WrittenLedger[k].pathTargetAbsolute] # Absent

ProcessOneEntryAndOutputPerSourceWitness ==
    /\ ProcessCompleted
    /\ \A d \in Docs : vault[d] # Absent /\ Cardinality(WrittenEntriesOf(d)) = 1
    /\ layout = "flat"

\* --------------------------- claims on the registry after a deleted document
ListedIn(file, d) ==
    \E fileName \in AssetNames, size \in SizeTags :
       d \in DocumentsOf(RegistryContent(file), fileName, size)

\* The run has ended; it found the document deleted from the vault (it is
\* in the delete-set and not in the inventory) while the registry the run
\* started with listed it.
DeletedInRun(d) ==
    /\ ppc = "return"
    /\ \E k \in 1..Len(filesToDelete) :
          HasPathKey(filesToDelete[k]) /\ filesToDelete[k].pathKey = d
    /\ \A k \in 1..Len(allSourceFilesInfo) : allSourceFilesInfo[k].pathSourceRelative # d
    /\ ListedIn(startFiles.registry, d)

\* C36: when a run has to release the references of a deleted document,
\* the registry persisted at the end of that run no longer lists the
\* document, also when no document needs conversion.
C36_PrunedRegistryPersisted ==
    \A d \in Docs : DeletedInRun(d) => ~ListedIn(assetInfoJson, d)

\* What holds: a run that found a listed document deleted never completes,
\* and leaves the registry file as it found it.
DeletedDocumentRejectsRun ==
    \A d \in Docs :
       DeletedInRun(d) => pres = "rejected" /\ assetInfoJson = startFiles.registry

DeletedDocumentRejectsRunWitness ==
    \E d \in Docs : DeletedInRun(d) /\ Len(allSourceFilesInfo) = 1

\* ------------------------------------- claims on blocks at the end of a text
\* The lines of the text processMarkdown has built.
OutputLines == split(transformedContent, <<"\n">>)

\* A line that opens a callout (:::TYPE), and the line that ends one.
IsOpening(l) == Len(l) > 3 /\ SubSeq(l, 1, 3) = <<":", ":", ":">>
Terminator == <<":", ":", ":">>

EveryOpeningTerminated ==
    \A i \in 1..Len(OutputLines) :
       IsOpening(OutputLines[i]) =>
          \E j \in (i + 1)..Len(OutputLines) : OutputLines[j] = Terminator

\* C37: in the text processMarkdown returns, every callout opening is
\* followed later by a terminator line, and no quote block is left without
\* its attribution line, also when the block is the last thing in the
\* document and no blank line follows it.
C37_BlocksClosedInOutput ==
    mdpc = "returned" => EveryOpeningTerminated /\ ~inQuote

\* What holds: in the text returned for a document that ends with a blank
\* line every opening has its terminator and no quote is left open.
EndsWithBlank == sourceContent # <<>> /\ Blank(last(sourceContent))

BlocksClosedBeforeBlankEnd ==
    (mdpc = "returned" /\ EndsWithBlank) => EveryOpeningTerminated /\ ~inQuote

BlocksClosedBeforeBlankEndWitness ==
    /\ mdpc = "returned"
    /\ EndsWithBlank
    /\ \E i \in 1..Len(OutputLines) : IsOpening(OutputLines[i])

\* ------------------------------------------ claims on a second rewriting
\* checkForLinks has returned from a line it had returned before.
LinkHandledAgain == lastLine.pass = "checkForLinksAgain"

\* C38: checkForLinks is idempotent: applied to a line it has already
\* normalised, it returns the line unchanged.
C38_CheckForLinksIdempotent == LinkHandledAgain => lastLine.urls = lastLine.line

\* What holds: a line the first application rewrote is rewritten again, to
\* a path that starts with two slashes; a line it left alone is left alone
\* again.
SecondRewritingAddsSlash ==
    LinkHandledAgain =>
        IF lastLine.first = lastLine.line
        THEN lastLine.urls = lastLine.line
        ELSE /\ lastLine.urls # lastLine.line
             /\ SubSeq(LinkPattern(lastLine.urls).url, 1, 2) = <<"/", "/">>

SecondRewritingAddsSlashWitness ==
    /\ LinkHandledAgain
    /\ lastLine.first # lastLine.line
    /\ LinkPattern(lastLine.line).url = <<"/", "g", "u", "i", "d", "e", "/", "i", "n", "t", "r", "o">>

\* ------------------------------------------ lines with several wiki links
\* Most wiki-style links in a line.
MaxLinks == 3

\* Links to a known note (bare and with a title), to a known attachment,
\* and to nothing the vault holds.
WikiLinks ==
    {<<"[", "[", "N", "o", "t", "e", " ", "A", "]", "]">>,
     <<"[", "[", "N", "o", "t", "e", " ", "A", "|", "S", "e", "e", " ", "T", "h", "i", "s", "]", "]">>,
     <<"!", "[", "[", "d", "i", "a", "g", "r", "a", "m", ".", "p", "n", "g", "]", "]">>,
     <<"[", "[", "g", "h", "o", "s", "t", "]", "]">>}

RECURSIVE joinAll(_)
joinAll(links) == IF links = <<>> THEN <<>>
                  ELSE IF Len(links) = 1 THEN links[1]
                  ELSE links[1] \o <<" ">> \o joinAll(Tail(links))

WikiLines == {joinAll(links) : links \in UNION {[1..n -> WikiLinks] : n \in 1..MaxLinks}}

WikiFrame == UNCHANGED <<envVars, handlerVars, processVars, obsVars, sourceContent,
                         transformedContent, inAdmonition, inQuote, admonition>>

\* processMarkdown, line 407: convertObsidianLinks is called with a line.
CallConvertObsidianLinks ==
    /\ mdpc = "idle"
    /\ sourceLines' \in {<<line>> : line \in WikiLines}
    /\ mdpc' = "lines"
    /\ lastLine' = NoLine
    /\ WikiFrame

\* convertObsidianLinks returns (lines 427-492).
ReturnConvertObsidianLinks ==
    /\ mdpc = "lines"
    /\ sourceLines # <<>>
    /\ lastLine' = [pass |-> "convertObsidianLinks", line |-> Head(sourceLines),
                    links |-> convertObsidianLinks(Head(sourceLines), fileInfo, allSourceAssetsInfo)]
    /\ sourceLines' = Tail(sourceLines)
    /\ mdpc' = "returned"
    /\ WikiFrame

NextWiki == CallConvertObsidianLinks \/ ReturnConvertObsidianLinks

SpecWiki == InitRegistry /\ [][NextWiki]_vars

\* ------------------------------------------ claims on several wiki links
WikiHandled == lastLine.pass = "convertObsidianLinks"

\* The text between the brackets names a known document or attachment.
Resolvable(group) ==
    LET first == split(group, <<"|">>)[1]
        filenameWithExtension == IF endsWith(first, <<".", "m", "d">>) THEN first ELSE first \o <<".", "m", "d">>
    IN \/ getPathOfFile(fileInfo, filenameWithExtension) # Undefined
       \/ getPathOfImage(allSourceAssetsInfo, group) # Undefined

\* The line behind its first [[...]] occurrence.
BehindFirst(line) ==
    LET all == WikiPattern(line).all
    IN SubSeq(line, indexOfFrom(line, all, 1) + Len(all), Len(line))

RECURSIVE ResolvableLinks(_)
ResolvableLinks(line) ==
    IF ~WikiPattern(line).found THEN 0
    ELSE (IF Resolvable(WikiPattern(line).group) THEN 1 ELSE 0) + ResolvableLinks(BehindFirst(line))

\* C39: after convertObsidianLinks has returned, no [[...]] occurrence that
\* resolves to a known document or attachment remains in the line, however
\* many the line held.
C39_NoResolvableLinkRemains == WikiHandled => ResolvableLinks(lastLine.links) = 0

\* What holds: the first occurrence is rewritten when it resolves, and no
\* other is.
OnlyFirstLinkRewritten ==
    WikiHandled =>
        ResolvableLinks(lastLine.links) =
            IF Resolvable(WikiPattern(lastLine.line).group)
            THEN ResolvableLinks(lastLine.line) - 1
            ELSE ResolvableLinks(lastLine.line)

OnlyFirstLinkRewrittenWitness ==
    /\ WikiHandled
    /\ Resolvable(WikiPattern(lastLine.line).group)
    /\ ResolvableLinks(lastLine.line) = MaxLinks
    /\ ResolvableLinks(lastLine.links) = MaxLinks - 1

====
